---- MODULE Spec2Model ----
(***************************************************************************)
(* Model of the STM grading harness (src/grading), its phase synchronizer  *)
(* `Sync`, the `measure` driver, and of the reference lock-based STM       *)
(* (src/reference/tm.c) seen through the transactional client              *)
(* (src/grading/transactional.hpp).                                        *)
(*                                                                         *)
(* Spec    : one call of measure() from main(): a master thread and        *)
(*           NbWorkers worker threads synchronised by Sync.                *)
(* FairSpec: Spec with the fairness the OS scheduler gives running threads.*)
(* SpecTM  : NbThreads threads issuing transactions through                *)
(*           transactional() on the reference STM.                         *)
(***************************************************************************)
EXTENDS Integers, Naturals, Sequences, FiniteSets, TLC

\* ------------------------------------------------------------------ bounds
NbWorkers == 2
NbRepeats == 1
MaxTick == 2
NbThreads == 2
MaxOps == 2
MaxTx == 2
MaxSegs == 1
MaxAttempts == 2
MaxRedraws == 1
nbtxperwrk == 1
nbaccounts == 3
init_balance == 1
check_nbtxperwrk == 3
SizeBits == 4
\* Largest argc of main (two artifacts).
MaxArgc == 4
\* Largest number of calls of Barrier::sync per thread.
MaxRounds == 5
\* The budget of bounded_run, in ticks of its wait.
MaxSide == 2
\* The alignments asked of tm_create are 2^0 .. 2^MaxAlignExp bytes.
MaxAlignExp == 5
\* The sizes asked of tm_create and tm_alloc are 1 .. MaxMult times the alignment.
MaxMult == 1
\* The heap blocks beside the one of the first segment.
MaxBlocks == 2
\* posix_memalign answers the alignment times 1 .. MaxBase.
MaxBase == 1
\* The calls of tm_alloc on a region.
MaxAllocs == 3

\* ------------------------------------------------------- program constants
\* WorkloadBank::nbworkers: std::thread::hardware_concurrency() on a machine
\* of two hardware threads.
nbworkers == 2
\* Chrono::invalid_tick, the "no timeout" sentinel.
invalid_tick == 195936478
\* Width of Chrono::Tick arithmetic (uint_fast64_t in the source; reduced so
\* that the wrapped values stay inside TLC's integers).
TickBits == 30

Workers == 1..NbWorkers
null == "nullptr"
InternalError == "Internal worker exception(s)"
WorkloadError == "Violated isolation or atomicity"
NoExit == -1
\* The wait status of a process ended by std::terminate (abort: 128 + SIGABRT).
SigAbort == 134
\* main(), line 271.
slow_factor == 8

\* Worker stages, the successive bodies of the worker lambda of measure():
\* 0 is init, 1..NbRepeats the runs, NbRepeats+1 the check, NbRepeats+2 the
\* trailing "synchronized quit" wait.
StageInit == 0
StageCheck == NbRepeats + 1
StageQuit == NbRepeats + 2

VARIABLES
    \* ---- class Sync
    status,     \* Sync::status
    nbready,    \* Sync::nbready
    errmsg,     \* Sync::errmsg
    runtime,    \* Sync::runtime, a Chrono: [total, local]
    donelatch,  \* Sync::donelatch: Latch::raised
    \* ---- environment
    now,        \* CLOCK_MONOTONIC
    \* ---- measure(), master side
    mpc,        \* position of the master thread
    mstage,     \* which phase the master is driving (as the worker stages)
    maxtick,    \* the maxtick_* argument of measure (the same for the phases)
    waitFrom,   \* time at which Latch::wait started waiting
    error,      \* measure's local `error`
    result,     \* what the last master_wait returned: [kind, val]
    times,      \* time_init, times[], time_chck as a sequence, in phase order
    threads,    \* state of each std::thread of `threads`
    exitCode,   \* exit code of the process, NoExit while it runs
    regionDestroyed, \* tm_destroy was called (WorkloadBank destructor)
    libUnloaded,     \* dlclose was called (TransactionalLibrary destructor)
    \* ---- main()
    argc,       \* main's argc
    artifact,   \* main's loop variable i, the index in argv of the artifact
    maxticks,   \* main's maxtick_init, maxtick_perf, maxtick_chck
    runner,     \* the runner thread of the last bounded_run
    br,         \* bounded_run: caller, runner thread, mutex, time waited, wait_for status
    region,     \* the reference library: struct region, its heap blocks and allocation list
    stx,        \* one short_tx call: its captured indices, its walk and its attempts
    \* ---- measure(), worker lambda
    wpc,        \* position of each worker thread
    wstage,     \* which body the worker is at
    werr,       \* the `error` argument of the pending worker_notify
    wcaught,    \* the worker is in the catch block of the lambda
    \* ---- history variables (observations, not program state)
    opened,     \* number of phases opened by master_notify
    arrived,    \* workers that incremented nbready at the gate of this phase
    notified,   \* workers that incremented nbready in worker_notify
    bodies,     \* per worker: number of bodies started in this phase
    published,  \* error strings stored to errmsg in this phase
    raises,     \* number of Latch::raise calls in this phase
    startAt,    \* time of Chrono::start of this phase, -1 before it
    stopAt,     \* time of Chrono::stop of this phase, -1 before it
    stopRaced,  \* some Chrono::stop ran before the Chrono::start of its phase
    elapsed,    \* per phase ended Done: time from its start() to its stop()
    \* ---- reference STM and transactional client (SpecTM)
    rwlock,     \* region->lock: [readers, writer]
    tpc,        \* position of each client thread
    tmode,      \* Transaction::is_ro of the thread's transaction
    taborted,   \* Transaction::aborted
    tactive,    \* history: mode of the transaction between tm_begin and tm_end
    tops,       \* history: operations issued in the current attempt
    attempts,   \* history: attempts of the current transactional() call
    txdone,     \* history: transactional() calls completed by the thread
    commits,    \* history: tm_end calls that returned true, per thread
    allocs,     \* number of segments on region->allocs
    \* ---- history of the calls a Transaction makes to the STM
    tfailed,    \* an operation of the current transaction asked to abort
    tlate,      \* calls made on the current transaction after that
    tends,      \* tm_end calls made on the current transaction
    tsignals,   \* TransactionRetry thrown in the current transactional() call
    tretAtt,    \* attempt whose value the call returned, 0 before it returns
    tcommitAtt, \* attempt whose tm_end returned true, 0 if none
    \* ---- shared memory and the bank workload (SpecBank)
    mem,        \* the shared segments, by address
    live,       \* addresses on region->allocs
    tkind,      \* which body the thread's transaction runs
    tran,       \* the body of the thread's transaction has run
    tret,       \* value the last body returned
    lcount,     \* WorkloadBank::run's local `count`
    cntr,       \* WorkloadBank::run's loop counter
    rpc,        \* position of the thread in WorkloadBank::init / run
    redraws,    \* short_tx calls that returned false in the current while loop
    shadow,     \* history: the memory made of the committed writes
    wlog,       \* history: what the active read-write transaction changed
    last,       \* history: arguments of the active read-write body
    \* ---- WorkloadBank::check (SpecCheck)
    barrier,    \* WorkloadBank::barrier: Barrier::step and Barrier::mode
    bsync,      \* history, per thread: fetch_add, fetch_sub and returns of sync() so far
    sync_pc,    \* position of the thread in Barrier::sync, "none" outside
    chk_pc,     \* position of the thread in WorkloadBank::check
    chk_i,      \* check's loop counter i
    chk_last,   \* check's local `last`
    chk_value,  \* check's local `value` of a decrement that has read the counter, or -1
    lostupd     \* history: the values committed decrements read, and whether one was read twice

syncVars == <<status, nbready, errmsg, runtime, donelatch>>
masterVars == <<mpc, mstage, maxtick, waitFrom, error, result, times, threads,
                exitCode, regionDestroyed, libUnloaded>>
mainVars == <<argc, artifact, maxticks, runner, br, region, stx>>
workerVars == <<wpc, wstage, werr, wcaught>>
histVars == <<opened, arrived, notified, bodies, published, raises,
              startAt, stopAt, stopRaced, elapsed>>
clientHist == <<tfailed, tlate, tends, tsignals, tretAtt, tcommitAtt>>
bankVars == <<mem, live, tkind, tran, tret, lcount, cntr, rpc, redraws, shadow, wlog,
             last>>
checkVars == <<barrier, bsync, sync_pc, chk_pc, chk_i, chk_last, chk_value, lostupd>>
tmVars == <<rwlock, tpc, tmode, taborted, tactive, tops, attempts, txdone, commits,
           allocs, clientHist, bankVars, checkVars>>
vars == <<syncVars, masterVars, mainVars, workerVars, histVars, now, tmVars>>

\* ------------------------------------------------------------------ Chrono
\* Values an uninitialised Chrono::local may hold (Chrono's constructor sets
\* only `total`).
UninitTicks == {0, 1}

Wrap(x) == x % (2 ^ TickBits)

\* Chrono::convert(clock_gettime): the current time, never the sentinel.
convert == IF now = invalid_tick THEN invalid_tick + 1 ELSE now

ChronoStart(c) == [c EXCEPT !.local = convert]

ChronoDelta(c) == Wrap(convert - c.local)

ChronoStop(c) == [c EXCEPT !.total = Wrap(c.total + ChronoDelta(c))]

ChronoGetTick(c) == c.total

\* ------------------------------------------------------------------- state
running == exitCode = NoExit

\* sizeof(void*) and sizeof(struct link) of the reference library, in bytes.
PtrSize == 8

LinkSize == 16

\* The node of the allocation list that is region->allocs.
Base == 0

\* The heap blocks posix_memalign may answer.
Blocks == 1..(MaxBlocks + 1)

\* No pointer.
NullPtr == [blk |-> 0, off |-> 0]

\* The reference library before tm_create: no struct region. st, start and
\* lock tell whether the struct, the first segment and the lock exist; links
\* holds the prev and next of region->allocs and of the link at the start of
\* each block; heap is the blocks allocated; target, taddr, tbytes and asked
\* are what the last tm_alloc answered, the address and the contents of the
\* block it got, and the size it was asked; calls counts the calls of
\* tm_alloc. History: out is the segments tm_alloc answered and tm_free has
\* not been given, dfree tells a free of a block that is not allocated, uaf
\* an access to the struct after free(region).
NoRegion ==
    [pc |-> "none", st |-> "none", start |-> 0, lock |-> "none",
     align |-> 0, size |-> 0, align_alloc |-> 0, delta_alloc |-> 0,
     links |-> [n \in {Base} \cup Blocks |-> [prev |-> n, next |-> n]],
     heap |-> {}, target |-> NullPtr, taddr |-> 0, tbytes |-> <<>>, asked |-> 0,
     calls |-> 0, out |-> {}, dfree |-> FALSE, uaf |-> FALSE]

\* bounded_run not called: no runner thread, its mutex not constructed.
\* No short_tx call is in progress. send_id and recv_id are the parameters of
\* short_tx, which the closure captures by reference; arg_s and arg_r are the
\* values the caller gave; view is the memory as the transaction sees it.
NoShort ==
    [pc |-> "idle", send_id |-> 0, recv_id |-> 0, arg_s |-> 0, arg_r |-> 0,
     send_ptr |-> [a |-> 0, i |-> 0], recv_ptr |-> [a |-> 0, i |-> 0], start |-> 0,
     ret |-> "none", attempts |-> 0, aborts |-> 0]

BrIdle == [caller |-> "idle", runner |-> "none", lock |-> "none", clock |-> 0,
           status |-> "none"]

\* main() while it evaluates its last artifact, the bank constructed (the
\* runner of tm_create joined): the first artifact when there is no timeout,
\* a later one otherwise.
InitArtifact ==
    /\ maxticks = [init |-> maxtick, perf |-> maxtick, chck |-> maxtick]
    /\ argc = IF maxtick = invalid_tick THEN 3 ELSE 4
    /\ artifact = argc - 1
    /\ runner = "joined"
    /\ br = BrIdle
    /\ region = NoRegion
    /\ stx = NoShort

InitSync ==
    /\ status = "Done"
    /\ nbready = 0
    /\ errmsg = null
    /\ runtime \in [total : {0}, local : UninitTicks]
    /\ donelatch = FALSE
    /\ now = 0
    /\ mstage = StageInit
    /\ waitFrom = 0
    /\ error = null
    /\ result = [kind |-> "none", val |-> 0]
    /\ times = <<>>
    /\ threads = [w \in Workers |-> "none"]
    /\ exitCode = NoExit
    /\ regionDestroyed = FALSE
    /\ libUnloaded = FALSE
    /\ wpc = [w \in Workers |-> "unstarted"]
    /\ wstage = [w \in Workers |-> StageInit]
    /\ werr = [w \in Workers |-> null]
    /\ wcaught = [w \in Workers |-> FALSE]
    /\ opened = 0
    /\ arrived = {}
    /\ notified = {}
    /\ bodies = [w \in Workers |-> 0]
    /\ published = {}
    /\ raises = 0
    /\ startAt = -1
    /\ stopAt = -1
    /\ stopRaced = FALSE
    /\ elapsed = <<>>

\* ------------------------------------------------------------ environment
\* Time passes.
Tick ==
    /\ running
    /\ now < MaxTick
    /\ now' = now + 1
    /\ UNCHANGED <<syncVars, masterVars, mainVars, workerVars, histVars, tmVars>>

\* ------------------------------------------------------- measure(): master
\* The thread-creation loop of measure(): start the next worker thread.
Spawn ==
    /\ running
    /\ mpc = "spawn"
    /\ LET i == CHOOSE w \in Workers :
                    threads[w] = "none" /\ \A v \in Workers : v < w => threads[v] # "none"
       IN /\ threads' = [threads EXCEPT ![i] = "joinable"]
          /\ wpc' = [wpc EXCEPT ![i] = "ww_load"]
          /\ mpc' = IF i = NbWorkers THEN "notify" ELSE "spawn"
    /\ UNCHANGED <<syncVars, mstage, maxtick, waitFrom, error, result, times, exitCode,
                   regionDestroyed, libUnloaded, wstage, werr, wcaught, histVars, now, mainVars, tmVars>>

\* Sync::master_notify, first statement: status := Wait.
MasterNotifyStore ==
    /\ running
    /\ mpc = "notify"
    /\ status' = "Wait"
    /\ mpc' = "start"
    /\ opened' = opened + 1
    /\ arrived' = {}
    /\ notified' = {}
    /\ bodies' = [w \in Workers |-> 0]
    /\ published' = {}
    /\ raises' = 0
    /\ startAt' = -1
    /\ stopAt' = -1
    /\ stopRaced' = stopRaced
    /\ elapsed' = elapsed
    /\ UNCHANGED <<nbready, errmsg, runtime, donelatch, mstage, maxtick, waitFrom, error,
                   result, times, threads, exitCode, regionDestroyed, libUnloaded,
                   workerVars, now, mainVars, tmVars>>

\* measure(), lines 203, 213 and 224: the timeout given to master_wait in the
\* phase `stage`.
MaxtickOf(mt, stage) ==
    IF stage = StageInit THEN mt.init
    ELSE IF stage = StageCheck THEN mt.chck
    ELSE mt.perf

\* Sync::master_notify, second statement: runtime.start(); the master then
\* enters master_wait (with the timeout of the phase) and starts waiting on
\* the latch.
MasterNotifyStart ==
    /\ running
    /\ mpc = "start"
    /\ runtime' = ChronoStart(runtime)
    /\ startAt' = now
    /\ waitFrom' = now
    /\ maxtick' = MaxtickOf(maxticks, mstage)
    /\ mpc' = "wait"
    /\ UNCHANGED <<status, nbready, errmsg, donelatch, mstage, error, result,
                   times, threads, exitCode, regionDestroyed, libUnloaded, workerVars,
                   opened, arrived, notified, bodies, published, raises, stopAt,
                   stopRaced, elapsed, now, mainVars, tmVars>>

\* Latch::wait returns true: the latch was raised; it is reset.
MasterWaitRaised ==
    /\ running
    /\ mpc = "wait"
    /\ donelatch
    /\ donelatch' = FALSE
    /\ mpc' = "inspect"
    /\ UNCHANGED <<status, nbready, errmsg, runtime, mstage, maxtick, waitFrom, error,
                   result, times, threads, exitCode, regionDestroyed, libUnloaded,
                   workerVars, histVars, now, mainVars, tmVars>>

\* Faulty variant: the loop stops one thread short.
DetachButLast(th) == [w \in Workers |-> IF w < NbWorkers THEN "detached" ELSE th[w]]

\* The loop of the catch (...) block of measure(): threads[i].detach() for
\* every i < nbthreads.
DetachAll(th) == [w \in Workers |-> "detached"]

\* Latch::wait returns false (overtime): master_wait throws BoundedOverrun;
\* the catch (...) block of measure() detaches the threads and rethrows to
\* the catch block of main().
MasterWaitTimeout ==
    /\ running
    /\ mpc = "wait"
    /\ maxtick # invalid_tick
    /\ ~donelatch
    /\ now - waitFrom >= maxtick
    /\ threads' = DetachAll(threads)
    /\ mpc' = "quick_exit"
    /\ UNCHANGED <<syncVars, mstage, maxtick, waitFrom, error, result, times,
                   exitCode, regionDestroyed, libUnloaded, workerVars, histVars, now, mainVars, tmVars>>

\* Faulty variant: an error does not end the sequence of phases.
AfterWaitContinue(kind, stage) ==
    IF kind \in {"time", "error"} THEN (IF stage = StageCheck THEN "join" ELSE "notify")
    ELSE "quick_exit"

\* Where measure() goes with the result of master_wait for stage `stage`:
\* the next phase after a time, `goto join` after an error or after the
\* check, and through its catch block to the one of main() when master_wait
\* threw Unreachable.
AfterWait(kind, stage) ==
    IF kind = "time" THEN (IF stage = StageCheck THEN "join" ELSE "notify")
    ELSE IF kind = "error" THEN "join"
    ELSE "quick_exit"

\* The switch of Sync::master_wait: the variant it returns.
WaitResult ==
    IF status = "Done" THEN [kind |-> "time", val |-> ChronoGetTick(runtime)]
    ELSE IF status = "Fail" THEN [kind |-> "error", val |-> errmsg]
    ELSE [kind |-> "unreachable", val |-> 0]

\* The switch of Sync::master_wait and what measure() does with its result.
MasterInspect ==
    /\ running
    /\ mpc = "inspect"
    /\ result' = WaitResult
    /\ times' = IF WaitResult.kind = "time" THEN Append(times, WaitResult.val) ELSE times
    /\ error' = IF WaitResult.kind = "error" THEN WaitResult.val ELSE error
    /\ mstage' = IF AfterWait(WaitResult.kind, mstage) = "notify" THEN mstage + 1 ELSE mstage
    /\ mpc' = AfterWait(WaitResult.kind, mstage)
    /\ threads' = IF AfterWait(WaitResult.kind, mstage) = "quick_exit"
                  THEN DetachAll(threads) ELSE threads
    /\ elapsed' = IF WaitResult.kind = "time" THEN Append(elapsed, stopAt - startAt)
                  ELSE elapsed
    /\ UNCHANGED <<syncVars, maxtick, waitFrom, exitCode, regionDestroyed,
                   libUnloaded, workerVars, opened, arrived, notified, bodies, published,
                   raises, startAt, stopAt, stopRaced, now, mainVars, tmVars>>

\* Sync::master_join: status := Quit.
MasterJoin ==
    /\ running
    /\ mpc = "join"
    /\ status' = "Quit"
    /\ mpc' = "joining"
    /\ UNCHANGED <<nbready, errmsg, runtime, donelatch, mstage, maxtick, waitFrom, error,
                   result, times, threads, exitCode, regionDestroyed, libUnloaded,
                   workerVars, histVars, now, mainVars, tmVars>>

\* threads[i].join() of the join loop: returns once thread i has terminated.
MasterJoinThread ==
    /\ running
    /\ mpc = "joining"
    /\ LET i == CHOOSE w \in Workers :
                    threads[w] = "joinable" /\ \A v \in Workers : v < w => threads[v] # "joinable"
       IN /\ wpc[i] = "exited"
          /\ threads' = [threads EXCEPT ![i] = "joined"]
          /\ mpc' = IF i = NbWorkers THEN "return" ELSE "joining"
    /\ UNCHANGED <<syncVars, mstage, maxtick, waitFrom, error, result, times, exitCode,
                   regionDestroyed, libUnloaded, workerVars, histVars, now, mainVars, tmVars>>


\* ------------------------------------------------------------------ main()
\* catch (std::exception) around measure(): quick_exit(2).
MainQuickExit ==
    /\ running
    /\ mpc = "quick_exit"
    /\ exitCode' = 2
    /\ mpc' = "done"
    /\ UNCHANGED <<syncVars, mstage, maxtick, waitFrom, error, result, times, threads,
                   regionDestroyed, libUnloaded, workerVars, histVars, now, mainVars, tmVars>>

\* The element that std::nth_element(first, first + n, last) leaves at
\* position n (0-based): the one of rank n in ascending order.
NthElement(seq, n) ==
    CHOOSE v \in {seq[i] : i \in DOMAIN seq} :
        /\ Cardinality({i \in DOMAIN seq : seq[i] < v}) <= n
        /\ n < Cardinality({i \in DOMAIN seq : seq[i] <= v})

\* measure(), line 199.
posmedian == NbRepeats \div 2

\* The tuple measure() returns without error, from the values master_wait
\* returned for the phases: time_init, times[posmedian] once nth_element has
\* run, time_chck.
MeasureResult(ts) ==
    [init |-> ts[1],
     perf |-> NthElement(SubSeq(ts, 2, NbRepeats + 1), posmedian),
     chck |-> ts[NbRepeats + 2]]

\* n * x in Tick arithmetic, by additions that stay inside TLC's integers.
RECURSIVE TimesTick(_, _)
TimesTick(n, x) == IF n = 0 THEN 0 ELSE Wrap(x + TimesTick(n - 1, x))

\* main(), lines 315-323: the timeout derived from a time of the reference.
SetMaxtick(tick) ==
    IF TimesTick(slow_factor, tick) = invalid_tick
    THEN Wrap(TimesTick(slow_factor, tick) + 1)
    ELSE TimesTick(slow_factor, tick)

\* main(), lines 303-328, once measure() has returned: an error makes main
\* return 1 (through the destructors); without error the first artifact
\* sets the three timeouts.
MainResult ==
    /\ running
    /\ mpc = "return"
    /\ maxticks' = IF error = null /\ maxticks.init = invalid_tick
                   THEN [init |-> SetMaxtick(MeasureResult(times).init),
                         perf |-> SetMaxtick(MeasureResult(times).perf),
                         chck |-> SetMaxtick(MeasureResult(times).chck)]
                   ELSE maxticks
    /\ mpc' = "destroy"
    /\ UNCHANGED <<syncVars, mstage, maxtick, waitFrom, error, result, times, threads,
                   exitCode, regionDestroyed, libUnloaded, workerVars, histVars, now,
                   argc, artifact, runner, br, region, stx, tmVars>>

\* How a call of bounded_run can end: func returned in time (the runner is
\* joined), or the wait ran out (the runner is detached and BoundedOverrun
\* is thrown).
BoundedRuns == {"returned", "overrun"}

\* Leaving the scope destroys the workload: ~TransactionalMemory runs
\* tm_destroy under bounded_run. The destructor is noexcept, so the
\* BoundedOverrun of an overrun ends in std::terminate.
MainDestroy ==
    /\ running
    /\ mpc = "destroy"
    /\ \E o \in BoundedRuns :
         /\ runner' = IF o = "returned" THEN "joined" ELSE "detached"
         /\ br' = br
         /\ region' = region
         /\ stx' = stx
         /\ regionDestroyed' = (o = "returned")
         /\ exitCode' = IF o = "returned" THEN exitCode ELSE SigAbort
         /\ mpc' = IF o = "returned" THEN "unload" ELSE "done"
    /\ UNCHANGED <<syncVars, mstage, maxtick, waitFrom, error, result, times, threads,
                   libUnloaded, workerVars, histVars, now, argc, artifact, maxticks, tmVars>>

\* ... and then the TransactionalLibrary (dlclose).
MainUnload ==
    /\ running
    /\ mpc = "unload"
    /\ libUnloaded' = TRUE
    /\ mpc' = "exit"
    /\ UNCHANGED <<syncVars, mstage, maxtick, waitFrom, error, result, times, threads,
                   exitCode, regionDestroyed, workerVars, histVars, now, mainVars, tmVars>>

\* Faulty variant: the error of measure() does not reach the exit code.
ReturnCodeZero(err) == 0

\* main(), lines 306-309 and 337: return 1 when measure() reported an error,
\* return 0 after the last artifact.
ReturnCode(err) == IF err # null THEN 1 ELSE 0

\* main() returns, the destructors of the iteration having run.
MainExit ==
    /\ running
    /\ mpc = "exit"
    /\ error # null \/ artifact = argc - 1
    /\ exitCode' = ReturnCode(error)
    /\ mpc' = "done"
    /\ UNCHANGED <<syncVars, mstage, maxtick, waitFrom, error, result, times, threads,
                   regionDestroyed, libUnloaded, workerVars, histVars, now, mainVars, tmVars>>

\* main(), lines 251-269: the usage test and the parsing of the seed
\* (std::stoul throws on a seed that is not a number, caught by the outer
\* catch block: return 1).
MainStart ==
    /\ running
    /\ mpc = "main"
    /\ \E seed_ok \in BOOLEAN :
         IF argc < 3 \/ ~seed_ok
         THEN /\ exitCode' = 1
              /\ mpc' = "done"
         ELSE /\ mpc' = "load"
              /\ UNCHANGED exitCode
    /\ UNCHANGED <<syncVars, mstage, maxtick, waitFrom, error, result, times, threads,
                   regionDestroyed, libUnloaded, workerVars, histVars, now, mainVars, tmVars>>

\* main(), line 298: TransactionalLibrary tl{argv[i]}. The constructor
\* throws when the path, the module or a symbol cannot be resolved: the outer
\* catch block returns 1.
MainLoad ==
    /\ running
    /\ mpc = "load"
    /\ \E loaded \in BOOLEAN :
         /\ exitCode' = IF loaded THEN exitCode ELSE 1
         /\ mpc' = IF loaded THEN "create" ELSE "done"
    /\ libUnloaded' = FALSE
    /\ regionDestroyed' = FALSE
    /\ runner' = "none"
    /\ br' = br
    /\ region' = region
    /\ stx' = stx
    /\ UNCHANGED <<syncVars, mstage, maxtick, waitFrom, error, result, times, threads,
                   workerVars, histVars, now, argc, artifact, maxticks, tmVars>>

\* main(), line 300: WorkloadBank bank{tl, ...}, whose TransactionalMemory
\* runs tm_create under bounded_run. tm_create returns in time with a region;
\* or with invalid_shared, and the TransactionCreate thrown in the runner
\* thread ends in std::terminate; or the wait runs out: the runner is
\* detached, BoundedOverrun leaves the constructor, which is outside the inner
\* try block: the unwinding destroys tl (dlclose) and the outer catch block
\* returns 1.
MainCreate ==
    /\ running
    /\ mpc = "create"
    /\ \E o \in BoundedRuns \cup {"invalid"} :
         /\ runner' = IF o = "returned" THEN "joined"
                       ELSE IF o = "overrun" THEN "detached"
                       ELSE "raised"
         /\ libUnloaded' = (o = "overrun")
         /\ exitCode' = IF o = "returned" THEN exitCode
                         ELSE IF o = "overrun" THEN 1
                         ELSE SigAbort
         /\ mpc' = IF o = "returned" THEN "measure" ELSE "done"
    /\ UNCHANGED <<syncVars, mstage, maxtick, waitFrom, error, result, times, threads,
                   regionDestroyed, workerVars, histVars, now, argc, artifact, maxticks,
                   br, region, stx, tmVars>>

\* measure(), lines 152-154 and 196-199: the threads vector, the Sync object
\* and the locals of a new call.
MeasureEnter ==
    /\ running
    /\ mpc = "measure"
    /\ mpc' = "spawn"
    /\ status' = "Done"
    /\ nbready' = 0
    /\ errmsg' = null
    /\ runtime' \in [total : {0}, local : UninitTicks]
    /\ donelatch' = FALSE
    /\ mstage' = StageInit
    /\ maxtick' = maxticks.init
    /\ waitFrom' = now
    /\ error' = null
    /\ result' = [kind |-> "none", val |-> 0]
    /\ times' = <<>>
    /\ threads' = [w \in Workers |-> "none"]
    /\ wpc' = [w \in Workers |-> "unstarted"]
    /\ wstage' = [w \in Workers |-> StageInit]
    /\ werr' = [w \in Workers |-> null]
    /\ wcaught' = [w \in Workers |-> FALSE]
    /\ opened' = 0
    /\ arrived' = {}
    /\ notified' = {}
    /\ bodies' = [w \in Workers |-> 0]
    /\ published' = {}
    /\ raises' = 0
    /\ startAt' = -1
    /\ stopAt' = -1
    /\ stopRaced' = FALSE
    /\ elapsed' = <<>>
    /\ UNCHANGED <<exitCode, regionDestroyed, libUnloaded, now, mainVars, tmVars>>

\* main(), line 295: the artifact passed, the loop goes on to the next one.
MainNext ==
    /\ running
    /\ mpc = "exit"
    /\ error = null
    /\ artifact < argc - 1
    /\ artifact' = artifact + 1
    /\ mpc' = "load"
    /\ UNCHANGED <<syncVars, mstage, maxtick, waitFrom, error, result, times, threads,
                   exitCode, regionDestroyed, libUnloaded, workerVars, histVars, now,
                   argc, maxticks, runner, br, region, stx, tmVars>>

\* ------------------------------------------------ measure(): worker lambda
\* Sync::worker_wait returned true to worker w, which is at stage wstage[w]:
\* it starts the body of that stage; past the check there is no body and the
\* lambda throws Unreachable into its own catch block.
\* Gives <<wpc, werr, wcaught, bodies>> of the worker after the return.
PassGate(w) ==
    IF wstage[w] = StageQuit
    THEN <<"wn_errmsg", InternalError, TRUE, bodies[w]>>
    ELSE <<"body", werr[w], wcaught[w], bodies[w] + 1>>

\* What follows the return of Sync::worker_notify: the next worker_wait, or
\* the return of the lambda when the call came from its catch block.
\* Gives <<wpc, wstage>>.
AfterNotify(w) ==
    IF wcaught[w]
    THEN <<"exited", wstage[w]>>
    ELSE <<"ww_load", wstage[w] + 1>>

\* The tests of Sync::worker_wait and Sync::worker_notify.
\* Faulty variant: the first loop also ends on Run.
GateSeenEarly(s) == s \in {"Wait", "Run"}

\* Line 105: the first loop ends on Wait.
GateSeen(s) == s = "Wait"

\* Faulty variant: Quit is not looked at.
QuitNever(s) == FALSE

\* Line 107: the first loop returns false on Quit.
QuitSeen(s) == s = "Quit"

\* Faulty variant: the worker before the latest one also opens the gate.
GateLatestEarly(res) == res + 1 >= NbWorkers - 1

\* Line 112: `res + 1 == nbworkers`, with res the counter before the add.
GateLatest(res) == res + 1 = NbWorkers

\* Faulty variant: the second loop does not wait for the latest worker.
GateOpenAlways(s) == s \in {"Run", "Abort", "Wait"}

\* Line 118: the second loop ends on Run or Abort.
GateOpen(s) == s \in {"Run", "Abort"}

\* Faulty variant: the worker before the latest one also takes itself for the latest.
NotifyLatestEarly(res) == res + 1 >= NbWorkers - 1

\* Line 132: `res + 1 == nbworkers` in worker_notify.
NotifyLatest(res) == res + 1 = NbWorkers

\* Faulty variant: the Abort status is dropped.
FinalStatusDone(s) == "Done"

\* Line 134: the status the latest worker stores.
FinalStatus(s) == IF s = "Abort" THEN "Fail" ELSE "Done"

\* Sync::worker_wait, first loop: load status; Wait leaves the loop, Quit
\* returns false (the lambda returns), anything else spins.
WorkerWaitLoad(w) ==
    /\ running
    /\ wpc[w] = "ww_load"
    /\ wpc' = [wpc EXCEPT ![w] = IF GateSeen(status) THEN "ww_add"
                                 ELSE IF QuitSeen(status) THEN "exited"
                                 ELSE "ww_load"]
    /\ UNCHANGED <<syncVars, masterVars, wstage, werr, wcaught, histVars, now, mainVars, tmVars>>

\* Sync::worker_wait: nbready.fetch_add(1) and the test on its result.
WorkerWaitAdd(w) ==
    /\ running
    /\ wpc[w] = "ww_add"
    /\ nbready' = nbready + 1
    /\ arrived' = arrived \cup {w}
    /\ wpc' = [wpc EXCEPT ![w] = IF GateLatest(nbready) THEN "ww_reset" ELSE "ww_spin"]
    /\ UNCHANGED <<status, errmsg, runtime, donelatch, masterVars, wstage, werr, wcaught,
                   opened, notified, bodies, published, raises, startAt, stopAt,
                   stopRaced, elapsed, now, mainVars, tmVars>>

\* Sync::worker_wait, latest worker: nbready.store(0).
WorkerWaitReset(w) ==
    /\ running
    /\ wpc[w] = "ww_reset"
    /\ nbready' = 0
    /\ wpc' = [wpc EXCEPT ![w] = "ww_run"]
    /\ UNCHANGED <<status, errmsg, runtime, donelatch, masterVars, wstage, werr, wcaught,
                   histVars, now, mainVars, tmVars>>

\* Sync::worker_wait, latest worker: status.store(Run); return true.
WorkerWaitRun(w) ==
    /\ running
    /\ wpc[w] = "ww_run"
    /\ status' = "Run"
    /\ wpc' = [wpc EXCEPT ![w] = PassGate(w)[1]]
    /\ werr' = [werr EXCEPT ![w] = PassGate(w)[2]]
    /\ wcaught' = [wcaught EXCEPT ![w] = PassGate(w)[3]]
    /\ bodies' = [bodies EXCEPT ![w] = PassGate(w)[4]]
    /\ UNCHANGED <<nbready, errmsg, runtime, donelatch, masterVars, wstage,
                   opened, arrived, notified, published, raises, startAt, stopAt,
                   stopRaced, elapsed, now, mainVars, tmVars>>

\* Sync::worker_wait, not the latest worker: spin until status is Run or
\* Abort; return true.
WorkerWaitSpin(w) ==
    /\ running
    /\ wpc[w] = "ww_spin"
    /\ IF GateOpen(status)
       THEN /\ wpc' = [wpc EXCEPT ![w] = PassGate(w)[1]]
            /\ werr' = [werr EXCEPT ![w] = PassGate(w)[2]]
            /\ wcaught' = [wcaught EXCEPT ![w] = PassGate(w)[3]]
            /\ bodies' = [bodies EXCEPT ![w] = PassGate(w)[4]]
       ELSE UNCHANGED <<wpc, werr, wcaught, bodies>>
    /\ UNCHANGED <<syncVars, masterVars, wstage, opened, arrived, notified, published,
                   raises, startAt, stopAt, stopRaced, elapsed, now, mainVars, tmVars>>

\* What a body (Workload::init, run or check) can end with: it returns
\* nullptr, it returns an error string, or it throws.
BodyOutcomes == {"ok", "error", "throw"}

\* The body of the stage, up to the call of worker_notify: directly with the
\* body's result, or from the catch block with the fixed error string.
WorkerBody(w) ==
    /\ running
    /\ wpc[w] = "body"
    /\ \E o \in BodyOutcomes :
         /\ werr' = [werr EXCEPT ![w] = IF o = "ok" THEN null
                                        ELSE IF o = "error" THEN WorkloadError
                                        ELSE InternalError]
         /\ wcaught' = [wcaught EXCEPT ![w] = (o = "throw")]
         /\ wpc' = [wpc EXCEPT ![w] = IF o = "ok" THEN "wn_add" ELSE "wn_errmsg"]
    /\ UNCHANGED <<syncVars, masterVars, wstage, histVars, now, mainVars, tmVars>>

\* Sync::worker_notify with an error: errmsg.store(error).
WorkerNotifyErrmsg(w) ==
    /\ running
    /\ wpc[w] = "wn_errmsg"
    /\ errmsg' = werr[w]
    /\ published' = published \cup {werr[w]}
    /\ wpc' = [wpc EXCEPT ![w] = "wn_abort"]
    /\ UNCHANGED <<status, nbready, runtime, donelatch, masterVars, wstage, werr, wcaught,
                   opened, arrived, notified, bodies, raises, startAt, stopAt,
                   stopRaced, elapsed, now, mainVars, tmVars>>

\* Sync::worker_notify with an error: status.store(Abort).
WorkerNotifyAbort(w) ==
    /\ running
    /\ wpc[w] = "wn_abort"
    /\ status' = "Abort"
    /\ wpc' = [wpc EXCEPT ![w] = "wn_add"]
    /\ UNCHANGED <<nbready, errmsg, runtime, donelatch, masterVars, wstage, werr, wcaught,
                   histVars, now, mainVars, tmVars>>

\* Sync::worker_notify: nbready.fetch_add(1) and the test on its result.
WorkerNotifyAdd(w) ==
    /\ running
    /\ wpc[w] = "wn_add"
    /\ nbready' = nbready + 1
    /\ notified' = notified \cup {w}
    /\ IF NotifyLatest(nbready)
       THEN /\ wpc' = [wpc EXCEPT ![w] = "wn_reset"]
            /\ UNCHANGED wstage
       ELSE /\ wpc' = [wpc EXCEPT ![w] = AfterNotify(w)[1]]
            /\ wstage' = [wstage EXCEPT ![w] = AfterNotify(w)[2]]
    /\ UNCHANGED <<status, errmsg, runtime, donelatch, masterVars, werr, wcaught,
                   opened, arrived, bodies, published, raises, startAt, stopAt,
                   stopRaced, elapsed, now, mainVars, tmVars>>

\* Sync::worker_notify, latest worker: nbready.store(0).
WorkerNotifyReset(w) ==
    /\ running
    /\ wpc[w] = "wn_reset"
    /\ nbready' = 0
    /\ wpc' = [wpc EXCEPT ![w] = "wn_status"]
    /\ UNCHANGED <<status, errmsg, runtime, donelatch, masterVars, wstage, werr, wcaught,
                   histVars, now, mainVars, tmVars>>

\* Sync::worker_notify, latest worker: status := (Abort ? Fail : Done).
WorkerNotifyStatus(w) ==
    /\ running
    /\ wpc[w] = "wn_status"
    /\ status' = FinalStatus(status)
    /\ wpc' = [wpc EXCEPT ![w] = "wn_stop"]
    /\ UNCHANGED <<nbready, errmsg, runtime, donelatch, masterVars, wstage, werr, wcaught,
                   histVars, now, mainVars, tmVars>>

\* Sync::worker_notify, latest worker: runtime.stop().
WorkerNotifyStop(w) ==
    /\ running
    /\ wpc[w] = "wn_stop"
    /\ runtime' = ChronoStop(runtime)
    /\ stopAt' = now
    /\ stopRaced' = (stopRaced \/ startAt = -1)
    /\ elapsed' = elapsed
    /\ wpc' = [wpc EXCEPT ![w] = "wn_raise"]
    /\ UNCHANGED <<status, nbready, errmsg, donelatch, masterVars, wstage, werr, wcaught,
                   opened, arrived, notified, bodies, published, raises, startAt,
                   now, mainVars, tmVars>>

\* Sync::worker_notify, latest worker: donelatch.raise(); return.
WorkerNotifyRaise(w) ==
    /\ running
    /\ wpc[w] = "wn_raise"
    /\ donelatch' = TRUE
    /\ raises' = raises + 1
    /\ wpc' = [wpc EXCEPT ![w] = AfterNotify(w)[1]]
    /\ wstage' = [wstage EXCEPT ![w] = AfterNotify(w)[2]]
    /\ UNCHANGED <<status, nbready, errmsg, runtime, masterVars, werr, wcaught,
                   opened, arrived, notified, bodies, published, startAt, stopAt,
                   stopRaced, elapsed, now, mainVars, tmVars>>

WorkerStep(w) ==
    \/ WorkerWaitLoad(w)
    \/ WorkerWaitAdd(w)
    \/ WorkerWaitReset(w)
    \/ WorkerWaitRun(w)
    \/ WorkerWaitSpin(w)
    \/ WorkerBody(w)
    \/ WorkerNotifyErrmsg(w)
    \/ WorkerNotifyAbort(w)
    \/ WorkerNotifyAdd(w)
    \/ WorkerNotifyReset(w)
    \/ WorkerNotifyStatus(w)
    \/ WorkerNotifyStop(w)
    \/ WorkerNotifyRaise(w)

MasterStep ==
    \/ Spawn
    \/ MasterNotifyStore
    \/ MasterNotifyStart
    \/ MasterWaitRaised
    \/ MasterWaitTimeout
    \/ MasterInspect
    \/ MasterJoin
    \/ MasterJoinThread
    \/ MainQuickExit
    \/ MainResult
    \/ MainDestroy
    \/ MainUnload
    \/ MainExit

\* ------------------------------------------ shared memory of the bank workload
\* Addresses of segments: the first segment of the region (tm_start) and the
\* ones tm_alloc can return; NullAddr is nullptr.
NullAddr == 0

StartAddr == 1

Addrs == StartAddr..(StartAddr + MaxSegs)

Slots == 0..(nbaccounts - 1)

\* A segment as tm_create and tm_alloc leave it (memset 0): the fields of
\* AccountSegment.
ZeroSegment ==
    [count |-> 0, next |-> NullAddr, parity |-> 0, accounts |-> [i \in Slots |-> 0]]

ZeroMem == [a \in Addrs |-> ZeroSegment]

\* Faulty variant: a write that does not reach shared memory.
StoreNowhere(m, a, f, i, v) == m

\* tm_write on the reference STM: memcpy to the shared address (field f of
\* the segment at a, slot i for the accounts).
Store(m, a, f, i, v) ==
    IF f = "accounts" THEN [m EXCEPT ![a].accounts[i] = v] ELSE [m EXCEPT ![a][f] = v]

\* tm_read on the reference STM: memcpy from the shared address.
Load(m, a, f, i) == IF f = "accounts" THEN m[a].accounts[i] ELSE m[a][f]

\* A transaction body in progress: the memory it sees, the allocated
\* segments, and the log of what it asked the STM to change.
Ctx(m, lv) == [m |-> m, live |-> lv, log |-> <<>>]

\* Shared<T>::write through Transaction::write.
Wr(cx, a, f, i, v) ==
    [cx EXCEPT !.m = Store(cx.m, a, f, i, v),
               !.log = Append(cx.log, [op |-> "write", a |-> a, f |-> f, i |-> i, v |-> v])]

\* Transaction::alloc: tm_alloc returned the zeroed segment a.
Al(cx, a) ==
    [cx EXCEPT !.m = [cx.m EXCEPT ![a] = ZeroSegment],
               !.live = cx.live \cup {a},
               !.log = Append(cx.log, [op |-> "alloc", a |-> a, f |-> "", i |-> 0, v |-> 0])]

\* Transaction::free: tm_free released the segment a.
Fr(cx, a) ==
    [cx EXCEPT !.m = [cx.m EXCEPT ![a] = ZeroSegment],
               !.live = cx.live \ {a},
               !.log = Append(cx.log, [op |-> "free", a |-> a, f |-> "", i |-> 0, v |-> 0])]

\* The memory made of the committed writes: the log of a transaction applied
\* to the memory as of the previous commit.
RECURSIVE ApplyLog(_, _)
ApplyLog(m, log) ==
    IF log = <<>> THEN m
    ELSE LET e == Head(log)
             m1 == IF e.op = "write"
                   THEN (IF e.f = "accounts" THEN [m EXCEPT ![e.a].accounts[e.i] = e.v]
                         ELSE [m EXCEPT ![e.a][e.f] = e.v])
                   ELSE [m EXCEPT ![e.a] = ZeroSegment]
         IN ApplyLog(m1, Tail(log))

\* No read-write body is active.
NoLast == [kind |-> "none", s |-> 0, r |-> 0, wrote |-> -1, readback |-> -1]

\* ----------------------------------------------------- WorkloadBank bodies
\* The value of a bool-returning body.
Ret(b) == IF b THEN "true" ELSE "false"

\* What a body gives back: the context, the value it returns ("void" for
\* none) and how it ended: "return", "nomem" (TransactionAlloc), "null" (a
\* null pointer was dereferenced) or "loop" (the list walk did not end).
Out(cx, ret, how) == [cx |-> cx, ret |-> ret, how |-> how]

\* Steps a list walk may take before the model calls it endless.
Fuel == MaxSegs + 2

\* long_tx, lines 171-176: the sum of the first n accounts of the segment at
\* a, or -1 when one of them is negative.
RECURSIVE SumAccounts(_, _, _, _)
SumAccounts(m, a, i, n) ==
    IF i >= n \/ i \notin Slots THEN 0
    ELSE LET local == Load(m, a, "accounts", i)
             rest == SumAccounts(m, a, i + 1, n)
         IN IF local < 0 \/ rest < 0 THEN -1 ELSE local + rest

\* long_tx, the while loop: [count, sum, ok] of the list from start on; ok is
\* FALSE when a negative balance made the body return false.
RECURSIVE LongWalk(_, _, _, _, _)
LongWalk(m, start, count, sum, fuel) ==
    IF start = NullAddr THEN [count |-> count, sum |-> sum, ok |-> TRUE, ended |-> TRUE]
    ELSE IF fuel = 0 THEN [count |-> count, sum |-> sum, ok |-> TRUE, ended |-> FALSE]
    ELSE LET segment_count == Load(m, start, "count", 0)
             accs == SumAccounts(m, start, 0, segment_count)
         IN IF accs < 0
            THEN [count |-> count + segment_count, sum |-> sum, ok |-> FALSE, ended |-> TRUE]
            ELSE LongWalk(m, Load(m, start, "next", 0), count + segment_count,
                          sum + Load(m, start, "parity", 0) + accs, fuel - 1)

\* long_tx: the body's value and the count it leaves in `nbaccounts` (-1 when
\* it does not assign it).
LongTx(cx) ==
    LET w == LongWalk(cx.m, StartAddr, 0, 0, Fuel)
    IN IF ~w.ended THEN [out |-> Out(cx, "false", "loop"), count |-> -1]
       ELSE IF ~w.ok THEN [out |-> Out(cx, "false", "return"), count |-> -1]
       ELSE [out |-> Out(cx, Ret(w.sum = init_balance * w.count), "return"),
             count |-> w.count]

\* alloc_tx, the while loop: the last segment, its predecessor and the count
\* of accounts up to and including it.
RECURSIVE AllocWalk(_, _, _, _, _)
AllocWalk(m, start, prev, count, fuel) ==
    LET c == count + Load(m, start, "count", 0)
        segment_next == Load(m, start, "next", 0)
    IN IF segment_next = NullAddr THEN [seg |-> start, prev |-> prev, count |-> c, ended |-> TRUE]
       ELSE IF fuel = 0 THEN [seg |-> start, prev |-> prev, count |-> c, ended |-> FALSE]
       ELSE AllocWalk(m, segment_next, start, c, fuel - 1)

\* Faulty variant: the balance of the removed account is dropped.
NewParityKept(parity, balance) == parity

\* alloc_tx, line 199: the parity of the last segment once its last account
\* is removed with the balance it holds.
NewParity(parity, balance) == parity + balance - init_balance

\* Faulty variant: a transfer from an account without funds.
EnoughFundAlways(send_val) == TRUE

\* short_tx, line 267: the transfer is made only if the sender has funds.
EnoughFund(send_val) == send_val > 0

\* Faulty variant: a new segment for every account.
HasRoomNever(segment_count) == FALSE

\* alloc_tx, line 211: the last segment can take one more account.
HasRoom(segment_count) == segment_count < nbaccounts

\* Faulty variant: the last two accounts may go too.
DeallocatesBelowTwo(count, trigger) == count > trigger

\* alloc_tx, line 197: the trigger level asks for a deallocation, which is
\* done if more than two accounts are left.
Deallocates(count, trigger) == count > trigger /\ count > 2

\* Faulty variant: the receiver gets two units.
CreditedTwice(recv_val) == recv_val + 2

\* short_tx, line 269: the balance of the receiver after the transfer.
Credited(recv_val) == recv_val + 1

\* alloc_tx, lines 197-209: deallocate the last account.
AllocTxRemove(cx, w) ==
    LET segment_count == Load(cx.m, w.seg, "count", 0) - 1
        new_parity == NewParity(Load(cx.m, w.seg, "parity", 0),
                                Load(cx.m, w.seg, "accounts", segment_count))
    IN IF segment_count > 0
       THEN {Out(Wr(Wr(cx, w.seg, "count", 0, segment_count),
                    w.seg, "parity", 0, new_parity), "void", "return")}
       ELSE IF w.prev = NullAddr THEN {Out(cx, "void", "null")}
       ELSE LET c1 == Fr(cx, Load(cx.m, w.prev, "next", 0))
                c2 == Wr(c1, w.prev, "next", 0, NullAddr)
                c3 == Wr(c2, w.prev, "parity", 0,
                         Load(c2.m, w.prev, "parity", 0) + new_parity)
            IN {Out(c3, "void", "return")}

\* Faulty variant: the account is written but not counted.
CountKept(segment_count) == segment_count

\* alloc_tx, line 213: the count of the last segment with one more account.
CountAfterAdd(segment_count) == segment_count + 1

\* alloc_tx, lines 210-219: allocate one account, in the last segment or in a
\* new one; tm_alloc may answer any free address, or nomem.
AllocTxAdd(cx, w) ==
    LET segment_count == Load(cx.m, w.seg, "count", 0)
    IN IF HasRoom(segment_count)
       THEN {Out(Wr(Wr(cx, w.seg, "accounts", segment_count, init_balance),
                    w.seg, "count", 0, CountAfterAdd(segment_count)), "void", "return")}
       ELSE {Out(cx, "void", "nomem")} \cup
            { LET c1 == Al(cx, a)
                  c2 == Wr(c1, w.seg, "next", 0, a)
                  c3 == Wr(c2, a, "count", 0, 1)
              IN Out(Wr(c3, a, "accounts", 0, init_balance), "void", "return")
              : a \in Addrs \ (cx.live \cup {StartAddr}) }

\* alloc_tx: the outcomes of the body for a trigger level.
AllocTx(cx, trigger) ==
    LET w == AllocWalk(cx.m, StartAddr, NullAddr, 0, Fuel)
    IN IF ~w.ended THEN {Out(cx, "void", "loop")}
       ELSE IF Deallocates(w.count, trigger) THEN AllocTxRemove(cx, w)
       ELSE AllocTxAdd(cx, w)

\* short_tx, the while loop: the pointers found for the two indices (an
\* address and a slot), or found = FALSE when the list ended first.
NoPtr == [a |-> NullAddr, i |-> 0]

RECURSIVE ShortWalk(_, _, _, _, _, _, _)
ShortWalk(m, start, send_id, recv_id, send_ptr, recv_ptr, fuel) ==
    LET segment_count == Load(m, start, "count", 0)
        sp == IF send_ptr = NoPtr /\ send_id < segment_count
              THEN [a |-> start, i |-> send_id] ELSE send_ptr
        sid == IF send_ptr = NoPtr /\ send_id >= segment_count
               THEN send_id - segment_count ELSE send_id
        brk1 == send_ptr = NoPtr /\ sp # NoPtr /\ recv_ptr # NoPtr
        rp == IF ~brk1 /\ recv_ptr = NoPtr /\ recv_id < segment_count
              THEN [a |-> start, i |-> recv_id] ELSE recv_ptr
        rid == IF ~brk1 /\ recv_ptr = NoPtr /\ recv_id >= segment_count
               THEN recv_id - segment_count ELSE recv_id
        brk2 == ~brk1 /\ recv_ptr = NoPtr /\ rp # NoPtr /\ sp # NoPtr
        next == Load(m, start, "next", 0)
    IN IF brk1 \/ brk2 THEN [found |-> TRUE, send |-> sp, recv |-> rp, ended |-> TRUE]
       ELSE IF next = NullAddr THEN [found |-> FALSE, send |-> sp, recv |-> rp, ended |-> TRUE]
       ELSE IF fuel = 0 THEN [found |-> FALSE, send |-> sp, recv |-> rp, ended |-> FALSE]
       ELSE ShortWalk(m, next, sid, rid, sp, rp, fuel - 1)

\* short_tx: the body's outcome, with the value written to the sender and
\* the value then read from the receiver (-1 when there is no transfer).
ShortTx(cx, send_id, recv_id) ==
    LET w == ShortWalk(cx.m, StartAddr, send_id, recv_id, NoPtr, NoPtr, Fuel)
    IN IF ~w.ended THEN [out |-> Out(cx, "false", "loop"), wrote |-> -1, readback |-> -1]
       ELSE IF ~w.found THEN [out |-> Out(cx, "false", "return"), wrote |-> -1, readback |-> -1]
       ELSE LET send_val == Load(cx.m, w.send.a, "accounts", w.send.i)
                c1 == Wr(cx, w.send.a, "accounts", w.send.i, send_val - 1)
                recv_val == Load(c1.m, w.recv.a, "accounts", w.recv.i)
                c2 == Wr(c1, w.recv.a, "accounts", w.recv.i, Credited(recv_val))
            IN IF EnoughFund(send_val)
               THEN [out |-> Out(c2, "true", "return"), wrote |-> send_val - 1,
                     readback |-> recv_val]
               ELSE [out |-> Out(cx, "true", "return"), wrote |-> -1, readback |-> -1]

\* WorkloadBank::init, the read-write body.
RECURSIVE InitFill(_, _)
InitFill(cx, i) ==
    IF i >= nbaccounts THEN cx
    ELSE InitFill(Wr(cx, StartAddr, "accounts", i, init_balance), i + 1)

InitWriteTx(cx) == Out(InitFill(Wr(cx, StartAddr, "count", 0, nbaccounts), 0), "void", "return")

\* WorkloadBank::init, the read-only body.
InitReadTx(cx) == Out(cx, Ret(Load(cx.m, StartAddr, "accounts", 0) = init_balance), "return")

\* ------------------------------------------------------------ reference STM
Threads == 1..NbThreads

\* No transaction begun; the client threads are at position p.
InitClientAt(p) ==
    /\ rwlock = [readers |-> 0, writer |-> FALSE]
    /\ tpc = [t \in Threads |-> p]
    /\ tmode = [t \in Threads |-> "none"]
    /\ taborted = [t \in Threads |-> FALSE]
    /\ tactive = [t \in Threads |-> "none"]
    /\ tops = [t \in Threads |-> 0]
    /\ attempts = [t \in Threads |-> 0]
    /\ txdone = [t \in Threads |-> 0]
    /\ commits = [t \in Threads |-> 0]
    /\ tfailed = [t \in Threads |-> FALSE]
    /\ tlate = [t \in Threads |-> 0]
    /\ tends = [t \in Threads |-> 0]
    /\ tsignals = [t \in Threads |-> 0]
    /\ tretAtt = [t \in Threads |-> 0]
    /\ tcommitAtt = [t \in Threads |-> 0]
    /\ wlog = <<>>
    /\ last = NoLast
    /\ tkind = [t \in Threads |-> "none"]
    /\ tran = [t \in Threads |-> FALSE]
    /\ tret = [t \in Threads |-> "void"]
    /\ redraws = [t \in Threads |-> 0]
    /\ barrier = [step |-> 0, mode |-> "enter"]
    /\ bsync = [t \in Threads |-> [entered |-> 0, left |-> 0, returned |-> 0]]
    /\ sync_pc = [t \in Threads |-> "none"]
    /\ chk_i = [t \in Threads |-> 0]
    /\ chk_last = [t \in Threads |-> 0]
    /\ chk_value = [t \in Threads |-> -1]
    /\ lostupd = [seen |-> {}, twice |-> FALSE]

\* The region after tm_create, no transaction begun; the client threads are at
\* position p.
InitTMAt(p) ==
    /\ InitClientAt(p)
    /\ allocs = 0
    /\ mem = ZeroMem
    /\ live = {}
    /\ shadow = ZeroMem
    /\ lcount = [t \in Threads |-> nbaccounts]
    /\ cntr = [t \in Threads |-> 0]
    /\ rpc = [t \in Threads |-> IF p = "idle" THEN "init_w" ELSE "off"]
    /\ chk_pc = [t \in Threads |-> "off"]

TMIdle == InitTMAt("off")

\* Faulty variant: a shared acquisition that does not wait for the writer.
CanAcquireSharedAnyway(l) == l.readers >= 0

\* pthread_rwlock_rdlock (lock_acquire_shared) returns once no writer holds
\* the lock.
CanAcquireShared(l) == ~l.writer

\* pthread_rwlock_wrlock (lock_acquire) returns once nobody holds the lock.
CanAcquire(l) == ~l.writer /\ l.readers = 0

\* tm_begin: which lock operation the transaction waits for.
CanBegin(l, is_ro) == IF is_ro THEN CanAcquireShared(l) ELSE CanAcquire(l)

\* tm_begin: the lock once acquired.
BeginLock(l, is_ro) ==
    IF is_ro THEN [l EXCEPT !.readers = @ + 1] ELSE [l EXCEPT !.writer = TRUE]

\* Faulty variant: a tm_end that keeps the lock.
EndLockKept(l, is_ro) == l

\* tm_end: lock_release_shared for read_only_tx, lock_release otherwise.
EndLock(l, is_ro) ==
    IF is_ro THEN [l EXCEPT !.readers = @ - 1] ELSE [l EXCEPT !.writer = FALSE]

\* The values the functions of the reference STM return.
tm_end == TRUE

\* Faulty variant: a tm_read that asks for an abort.
tm_read_abort == FALSE

tm_read == TRUE

tm_write == TRUE

tm_free == TRUE

\* tm_alloc: nomem when posix_memalign fails, success otherwise.
tm_alloc == {"success", "nomem"}

\* The operations the workload issues in a transaction: reads only in a
\* read-only one.
OpsOf(is_ro) == IF is_ro THEN {"read"} ELSE {"read", "write", "alloc", "free"}

\* What the client sees of an operation: "success", "abort" (the function
\* returned false, or Alloc::abort) or "nomem".
Answers(op) ==
    IF op = "read" THEN {IF tm_read THEN "success" ELSE "abort"}
    ELSE IF op = "write" THEN {IF tm_write THEN "success" ELSE "abort"}
    ELSE IF op = "free" THEN {IF tm_free THEN "success" ELSE "abort"}
    ELSE tm_alloc

\* Faulty variant: a client that goes on after a failed operation.
RetriesNever(a) == FALSE

\* Transaction::read / write / alloc / free: does the answer make the client
\* mark the transaction aborted and throw TransactionRetry?
Retries(a) == a = "abort"

\* ------------------------------------------------------ transactional client
\* The variables of the Sync / measure() side and of check's barrier, which
\* the transactions leave alone.
syncSide == <<syncVars, masterVars, mainVars, workerVars, histVars, now, checkVars>>

\* transactional(tm, mode, func) is called with mode m.
ClientCall(t, m) ==
    /\ tmode' = [tmode EXCEPT ![t] = m]
    /\ attempts' = [attempts EXCEPT ![t] = 0]
    /\ tpc' = [tpc EXCEPT ![t] = "begin"]
    /\ tfailed' = [tfailed EXCEPT ![t] = FALSE]
    /\ tlate' = [tlate EXCEPT ![t] = 0]
    /\ tends' = [tends EXCEPT ![t] = 0]
    /\ tsignals' = [tsignals EXCEPT ![t] = 0]
    /\ tretAtt' = [tretAtt EXCEPT ![t] = 0]
    /\ tcommitAtt' = [tcommitAtt EXCEPT ![t] = 0]

\* A thread calls transactional() for a transaction of some operations.
TxCall(t) ==
    /\ tpc[t] = "idle"
    /\ txdone[t] < MaxTx
    /\ \E m \in {"ro", "rw"} : ClientCall(t, m)
    /\ UNCHANGED <<rwlock, allocs, taborted, tactive, tops, txdone, commits, bankVars,
                   syncSide>>

\* Transaction::Transaction once tm_begin has returned a transaction.
ClientBegin(t) ==
    /\ tactive' = [tactive EXCEPT ![t] = tmode[t]]
    /\ taborted' = [taborted EXCEPT ![t] = FALSE]
    /\ attempts' = [attempts EXCEPT ![t] = @ + 1]
    /\ tops' = [tops EXCEPT ![t] = 0]
    /\ tpc' = [tpc EXCEPT ![t] = "body"]
    /\ tfailed' = [tfailed EXCEPT ![t] = FALSE]
    /\ tlate' = [tlate EXCEPT ![t] = 0]
    /\ tends' = [tends EXCEPT ![t] = 0]
    /\ UNCHANGED <<tmode, txdone, commits, tsignals, tretAtt, tcommitAtt>>

\* Transaction::Transaction: tm_begin returns with the lock held.
TxBegin(t) ==
    /\ tpc[t] = "begin"
    /\ CanBegin(rwlock, tmode[t] = "ro")
    /\ rwlock' = BeginLock(rwlock, tmode[t] = "ro")
    /\ ClientBegin(t)
    /\ UNCHANGED <<allocs, bankVars, syncSide>>

\* Transaction::read / write / alloc / free with the answer a of the STM. An
\* answer that asks to abort marks the transaction aborted and throws
\* TransactionRetry: ~Transaction skips tm_end and transactional() loops to a
\* new Transaction. nomem throws TransactionAlloc out of the body.
ClientOp(t, op, a) ==
    /\ tops' = [tops EXCEPT ![t] = @ + 1]
    /\ taborted' = [taborted EXCEPT ![t] = Retries(a)]
    /\ tactive' = [tactive EXCEPT ![t] = IF Retries(a) THEN "none" ELSE @]
    /\ tpc' = [tpc EXCEPT ![t] = IF Retries(a) THEN "begin"
                                 ELSE IF a = "nomem" THEN "unwind"
                                 ELSE "body"]
    /\ tfailed' = [tfailed EXCEPT ![t] = @ \/ a = "abort"]
    /\ tlate' = [tlate EXCEPT ![t] = IF tfailed[t] THEN @ + 1 ELSE @]
    /\ tsignals' = [tsignals EXCEPT ![t] = IF Retries(a) THEN @ + 1 ELSE @]
    /\ UNCHANGED <<tmode, attempts, txdone, commits, tends, tretAtt, tcommitAtt>>

\* One operation of the body on the reference STM.
TxOp(t) ==
    /\ tpc[t] = "body"
    /\ tops[t] < MaxOps
    /\ \E op \in OpsOf(tmode[t] = "ro") : \E a \in Answers(op) :
         /\ op = "free" => allocs > 0
         /\ op = "alloc" => allocs < MaxSegs
         /\ allocs' = IF op = "alloc" /\ a = "success" THEN allocs + 1
                       ELSE IF op = "free" THEN allocs - 1
                       ELSE allocs
         /\ ClientOp(t, op, a)
    /\ UNCHANGED <<rwlock, bankVars, syncSide>>

\* Faulty variant: the call returns whatever tm_end answered.
EndNextAnyway(ok) == "idle"

\* transactional(): where the call goes after ~Transaction: it returns when
\* tm_end returned true and loops to a new Transaction on TransactionRetry.

EndNext(ok) == IF ok THEN "idle" ELSE "begin"

\* The body returns its value: ~Transaction calls tm_end unless the
\* transaction is aborted, ok is what tm_end answers.
ClientEnd(t, ok) ==
    /\ tactive' = [tactive EXCEPT ![t] = "none"]
    /\ tends' = [tends EXCEPT ![t] = IF taborted[t] THEN @ ELSE @ + 1]
    /\ commits' = [commits EXCEPT ![t] = IF ok THEN @ + 1 ELSE @]
    /\ tcommitAtt' = [tcommitAtt EXCEPT ![t] = IF ok THEN attempts[t] ELSE @]
    /\ tsignals' = [tsignals EXCEPT ![t] = IF ok THEN @ ELSE @ + 1]
    /\ txdone' = [txdone EXCEPT ![t] = IF EndNext(ok) = "idle" THEN @ + 1 ELSE @]
    /\ tretAtt' = [tretAtt EXCEPT ![t] = IF EndNext(ok) = "idle" THEN attempts[t] ELSE @]
    /\ tpc' = [tpc EXCEPT ![t] = EndNext(ok)]
    /\ UNCHANGED <<tmode, taborted, tops, attempts, tfailed, tlate>>

\* tm_end of the reference STM ends the transaction of t: what a read-write
\* transaction changed is committed.
RefEnd(t) ==
    /\ shadow' = IF tmode[t] = "rw" THEN ApplyLog(shadow, wlog) ELSE shadow
    /\ wlog' = IF tmode[t] = "rw" THEN <<>> ELSE wlog
    /\ last' = IF tmode[t] = "rw" THEN NoLast ELSE last
    /\ UNCHANGED <<mem, live, tkind, tran, tret, lcount, cntr, rpc, redraws>>

\* The body returns on the reference STM (a body of the workload has run to
\* its end).
TxEnd(t) ==
    /\ tpc[t] = "body"
    /\ tkind[t] # "none" => tran[t]
    /\ rwlock' = EndLock(rwlock, tmode[t] = "ro")
    /\ ClientEnd(t, tm_end)
    /\ RefEnd(t)
    /\ UNCHANGED <<allocs, syncSide>>

\* TransactionAlloc unwinds the body: ~Transaction calls tm_end (the
\* transaction is not aborted). When tm_end answers false the destructor
\* throws during the unwinding and the process is terminated; otherwise the
\* exception leaves transactional().
ClientUnwind(t, ok) ==
    /\ tactive' = [tactive EXCEPT ![t] = "none"]
    /\ tends' = [tends EXCEPT ![t] = @ + 1]
    /\ commits' = [commits EXCEPT ![t] = IF ok THEN @ + 1 ELSE @]
    /\ tcommitAtt' = [tcommitAtt EXCEPT ![t] = IF ok THEN attempts[t] ELSE @]
    /\ tpc' = [tpc EXCEPT ![t] = IF ok THEN "failed" ELSE "terminated"]
    /\ UNCHANGED <<tmode, taborted, tops, attempts, txdone, tfailed, tlate, tsignals,
                   tretAtt>>

\* TransactionAlloc on the reference STM.
TxUnwind(t) ==
    /\ tpc[t] = "unwind"
    /\ rwlock' = EndLock(rwlock, tmode[t] = "ro")
    /\ ClientUnwind(t, tm_end)
    /\ RefEnd(t)
    /\ UNCHANGED <<allocs, syncSide>>

ClientStep(t) ==
    \/ TxCall(t)
    \/ TxBegin(t)
    \/ TxOp(t)
    \/ TxEnd(t)
    \/ TxUnwind(t)

\* ---------------------------------------- the client on an arbitrary STM
\* What a library under test may answer to an operation.
AnyAnswers(op) ==
    IF op = "alloc" THEN {"success", "nomem", "abort"} ELSE {"success", "abort"}

\* tm_begin of an arbitrary STM returns a transaction.
AnyBegin(t) ==
    /\ tpc[t] = "begin"
    /\ ClientBegin(t)
    /\ UNCHANGED <<rwlock, allocs, bankVars, syncSide>>

\* One operation of the body; the number of attempts of a call is capped.
AnyOp(t) ==
    /\ tpc[t] = "body"
    /\ tops[t] < MaxOps
    /\ \E op \in OpsOf(tmode[t] = "ro") : \E a \in AnyAnswers(op) :
         /\ a = "abort" => attempts[t] < MaxAttempts
         /\ ClientOp(t, op, a)
    /\ UNCHANGED <<rwlock, allocs, bankVars, syncSide>>

\* The body returns; tm_end commits or not.
AnyEnd(t) ==
    /\ tpc[t] = "body"
    /\ \E ok \in BOOLEAN :
         /\ ~ok => attempts[t] < MaxAttempts
         /\ ClientEnd(t, ok)
    /\ UNCHANGED <<rwlock, allocs, bankVars, syncSide>>

\* TransactionAlloc unwinds the body; tm_end commits or not.
AnyUnwind(t) ==
    /\ tpc[t] = "unwind"
    /\ \E ok \in BOOLEAN : ClientUnwind(t, ok)
    /\ UNCHANGED <<rwlock, allocs, bankVars, syncSide>>

AnyStep(t) ==
    \/ TxCall(t)
    \/ AnyBegin(t)
    \/ AnyOp(t)
    \/ AnyEnd(t)
    \/ AnyUnwind(t)

\* ------------------------------------------------- WorkloadBank::init / run
\* The worker threads of the workload.
Bankers == 1..nbworkers

\* Faulty variant: every body is run read-only.
ModeOfAllRo(kind) == IF kind = "none" THEN "rw" ELSE "ro"

\* The mode each body is run in.
ModeOf(kind) == IF kind \in {"init_r", "long"} THEN "ro" ELSE "rw"

\* The trigger levels alloc_tx may be given.
Triggers == 0..(nbaccounts * (MaxSegs + 1))

\* WorkloadBank::init and run between two transactions, at position pos with
\* the body k just returned r (k = "none" when there is none), c iterations
\* of the loop of run done: the positions it can go to, with the body it
\* calls next ("none" when it returns) and the loop counter.
RunChoices(pos, k, r, c) ==
    IF pos = "init_w" THEN {[pos |-> "init_r", call |-> "init_w", cntr |-> c]}
    ELSE IF pos = "init_r" THEN {[pos |-> "init_x", call |-> "init_r", cntr |-> c]}
    ELSE IF pos = "init_x"
         THEN {[pos |-> IF r = "true" THEN "ready" ELSE "error", call |-> "none", cntr |-> c]}
    ELSE IF pos = "last"
         THEN {[pos |-> IF r = "true" THEN "done" ELSE "error", call |-> "none", cntr |-> c]}
    ELSE IF k = "long" /\ r = "false" THEN {[pos |-> "error", call |-> "none", cntr |-> c]}
    ELSE IF k = "short" /\ r = "false" THEN {[pos |-> "run", call |-> "short", cntr |-> c]}
    ELSE LET c1 == IF k = "none" THEN c ELSE c + 1
         IN IF c1 < nbtxperwrk
            THEN {[pos |-> "run", call |-> kk, cntr |-> c1] : kk \in {"long", "alloc", "short"}}
            ELSE {[pos |-> "last", call |-> "long", cntr |-> c1]}

\* The run phase is open: measure() starts it when every worker has notified
\* the init phase without error.
RunOpen == \A u \in Bankers : rpc[u] \in {"ready", "run", "last", "done"}

\* WorkloadBank::init / run of thread t goes on to its next transaction, or
\* returns.
BankNext(t) ==
    /\ tpc[t] = "idle"
    /\ rpc[t] \in {"init_w", "init_r", "init_x", "ready", "run", "last"}
    /\ rpc[t] = "ready" => RunOpen
    /\ \E n \in RunChoices(rpc[t], tkind[t], tret[t], cntr[t]) :
         /\ rpc' = [rpc EXCEPT ![t] = n.pos]
         /\ cntr' = [cntr EXCEPT ![t] = n.cntr]
         /\ tkind' = [tkind EXCEPT ![t] = n.call]
         /\ tret' = [tret EXCEPT ![t] = "void"]
         /\ tran' = [tran EXCEPT ![t] = FALSE]
         /\ lcount' = [lcount EXCEPT ![t] = IF rpc[t] = "ready" THEN nbaccounts ELSE @]
         /\ redraws' = [redraws EXCEPT ![t] = IF n.call = "short" /\ tret[t] = "false"
                                              THEN @ + 1 ELSE 0]
         /\ IF n.call = "none"
            THEN UNCHANGED <<tpc, tmode, attempts, clientHist>>
            ELSE ClientCall(t, ModeOf(n.call))
    /\ UNCHANGED <<rwlock, allocs, taborted, tactive, tops, txdone, commits, mem, live,
                   shadow, wlog, last, syncSide>>

\* The outcomes of the body of kind k run by thread t on the context cx, with
\* the arguments run() drew for it.
BodyOutcomes2(k, t, cx) ==
    IF k = "init_w"
    THEN {[out |-> InitWriteTx(cx), count |-> -1, s |-> 0, r |-> 0, wrote |-> -1,
           readback |-> -1]}
    ELSE IF k = "init_r"
    THEN {[out |-> InitReadTx(cx), count |-> -1, s |-> 0, r |-> 0, wrote |-> -1,
           readback |-> -1]}
    ELSE IF k = "long"
    THEN {[out |-> LongTx(cx).out, count |-> LongTx(cx).count, s |-> 0, r |-> 0,
           wrote |-> -1, readback |-> -1]}
    ELSE IF k = "alloc"
    THEN {[out |-> o, count |-> -1, s |-> 0, r |-> 0, wrote |-> -1, readback |-> -1] :
            o \in UNION {AllocTx(cx, trigger) : trigger \in Triggers}}
    ELSE {[out |-> ShortTx(cx, s, r).out, count |-> -1, s |-> s, r |-> r,
           wrote |-> ShortTx(cx, s, r).wrote, readback |-> ShortTx(cx, s, r).readback] :
            s \in 0..(lcount[t] - 1), r \in 0..(lcount[t] - 1)}

\* The body of the transaction of thread t runs on the reference STM, where
\* every operation succeeds: up to its return, or to the TransactionAlloc
\* of a tm_alloc that answered nomem. The number of consecutive draws of
\* indices that short_tx rejects is capped.
BankBody(t) ==
    /\ tpc[t] = "body"
    /\ tkind[t] \in {"init_w", "init_r", "long", "alloc", "short"}
    /\ ~tran[t]
    /\ \E o \in BodyOutcomes2(tkind[t], t, Ctx(mem, live)) :
         /\ (tkind[t] = "short" /\ o.out.ret = "false") => redraws[t] < MaxRedraws
         /\ mem' = o.out.cx.m
         /\ live' = o.out.cx.live
         /\ allocs' = Cardinality(o.out.cx.live)
         /\ wlog' = IF tmode[t] = "rw" THEN o.out.cx.log ELSE wlog
         /\ last' = IF tmode[t] = "rw"
                    THEN [kind |-> tkind[t], s |-> o.s, r |-> o.r, wrote |-> o.wrote,
                          readback |-> o.readback]
                    ELSE last
         /\ tret' = [tret EXCEPT ![t] = o.out.ret]
         /\ lcount' = [lcount EXCEPT ![t] = IF o.count >= 0 THEN o.count ELSE @]
         /\ tpc' = [tpc EXCEPT ![t] = IF o.out.how = "return" THEN "body"
                                      ELSE IF o.out.how = "nomem" THEN "unwind"
                                      ELSE "crashed"]
    /\ tran' = [tran EXCEPT ![t] = TRUE]
    /\ UNCHANGED <<rwlock, tmode, taborted, tactive, tops, attempts, txdone, commits,
                   clientHist, tkind, cntr, rpc, redraws, shadow, syncSide>>

BankStep(t) ==
    \/ BankNext(t)
    \/ TxBegin(t)
    \/ BankBody(t)
    \/ TxEnd(t)
    \/ TxUnwind(t)

\* ------------------------------------------------------ WorkloadBank::check
\* size_t, on SizeBits bits: the value after one is subtracted.
Minus1(value) == (value - 1) % (2 ^ SizeBits)

\* check, line 318: the value worker 0 gives the counter.
init_counter == check_nbtxperwrk * nbworkers

\* The uid of a thread: measure() numbers the workers from 0.
Uid(t) == t - 1

\* Faulty variant: a barrier that lets every thread through at once.
ArrivedLastAlways(r) == TRUE

\* Barrier::sync, line 319: this thread is the last one to enter.
ArrivedLast(r) == r = nbworkers

\* Barrier::sync of thread t, one atomic operation at a time: fetch_add and
\* the test, the store of leave or the wait for it, fetch_sub and the test,
\* the store of enter or the wait for it.
\* Faulty variant: the first thread to leave sets the mode back to enter.
LeftLastFirst(res) == res = nbworkers - 1

\* Barrier::sync, the test after fetch_sub: the last thread to leave.
LeftLast(res) == res = 0

BarrierStep(t) ==
    /\ sync_pc[t] # "none"
    /\ IF sync_pc[t] = "add"
       THEN /\ barrier' = [barrier EXCEPT !.step = @ + 1]
            /\ sync_pc' = [sync_pc EXCEPT ![t] = IF ArrivedLast(barrier.step + 1)
                                                 THEN "set_leave" ELSE "wait_leave"]
            /\ bsync' = [bsync EXCEPT ![t].entered = @ + 1]
       ELSE IF sync_pc[t] = "set_leave"
       THEN /\ barrier' = [barrier EXCEPT !.mode = "leave"]
            /\ sync_pc' = [sync_pc EXCEPT ![t] = "sub"]
            /\ UNCHANGED bsync
       ELSE IF sync_pc[t] = "wait_leave"
       THEN /\ barrier.mode = "leave"
            /\ sync_pc' = [sync_pc EXCEPT ![t] = "sub"]
            /\ UNCHANGED <<barrier, bsync>>
       ELSE IF sync_pc[t] = "sub"
       THEN /\ barrier' = [barrier EXCEPT !.step = @ - 1]
            /\ sync_pc' = [sync_pc EXCEPT ![t] = IF LeftLast(barrier.step - 1)
                                                 THEN "set_enter" ELSE "wait_enter"]
            /\ bsync' = [bsync EXCEPT ![t].left = @ + 1]
       ELSE IF sync_pc[t] = "set_enter"
       THEN /\ barrier' = [barrier EXCEPT !.mode = "enter"]
            /\ sync_pc' = [sync_pc EXCEPT ![t] = "none"]
            /\ bsync' = [bsync EXCEPT ![t].returned = @ + 1]
       ELSE /\ barrier.mode = "enter"
            /\ sync_pc' = [sync_pc EXCEPT ![t] = "none"]
            /\ bsync' = [bsync EXCEPT ![t].returned = @ + 1]
            /\ UNCHANGED barrier
    /\ UNCHANGED <<chk_pc, chk_i, chk_last, chk_value, lostupd, rwlock, tpc, tmode, taborted, tactive, tops,
                   attempts, txdone, commits, allocs, clientHist, bankVars, syncVars,
                   masterVars, workerVars, histVars, now, mainVars>>

\* Faulty variant: the other workers go straight to the loop.
AfterFirstSyncLoop(uid) == IF uid = 0 THEN "init_w" ELSE "loop"

\* check after its first barrier.sync(): worker 0 initialises the counter, the
\* others go to the second barrier.sync().
AfterFirstSync(uid) == IF uid = 0 THEN "init_w" ELSE "sync2"

\* check between two calls, at position pos with the last body having
\* returned r and i iterations of the loop done: the position it goes to, the
\* body it calls ("none" for none, "sync" for barrier.sync) and the loop
\* counter.
CheckChoice(pos, r, i, uid) ==
    IF pos = "sync1"
    THEN [pos |-> AfterFirstSync(uid), call |-> "sync", i |-> i]
    ELSE IF pos = "init_w" THEN [pos |-> "init_r", call |-> "chk_init_w", i |-> i]
    ELSE IF pos = "init_r" THEN [pos |-> "init_x", call |-> "chk_init_r", i |-> i]
    ELSE IF pos = "init_x"
    THEN [pos |-> IF r = "true" THEN "sync2" ELSE "fail0a", call |-> "none", i |-> i]
    ELSE IF pos = "fail0a" THEN [pos |-> "fail0b", call |-> "sync", i |-> i]
    ELSE IF pos = "fail0b" THEN [pos |-> "error", call |-> "sync", i |-> i]
    ELSE IF pos = "sync2" THEN [pos |-> "loop", call |-> "sync", i |-> i]
    ELSE IF pos = "loop"
    THEN (IF i < check_nbtxperwrk THEN [pos |-> "dec", call |-> "chk_read", i |-> i]
          ELSE [pos |-> "sync3", call |-> "none", i |-> i])
    ELSE IF pos = "dec" THEN [pos |-> "dec_x", call |-> "chk_dec", i |-> i]
    ELSE IF pos = "dec_x"
    THEN (IF r = "true" THEN [pos |-> "loop", call |-> "none", i |-> i + 1]
          ELSE [pos |-> "fail", call |-> "none", i |-> i])
    ELSE IF pos = "fail" THEN [pos |-> "error", call |-> "sync", i |-> i]
    ELSE IF pos = "sync3"
    THEN [pos |-> IF uid = 0 THEN "final" ELSE "done", call |-> "sync", i |-> i]
    ELSE IF pos = "final" THEN [pos |-> "final_x", call |-> "chk_final", i |-> i]
    ELSE [pos |-> IF r = "true" THEN "done" ELSE "error", call |-> "none", i |-> i]

\* The mode each body of check is run in.
CheckModeOf(kind) == IF kind \in {"chk_init_w", "chk_dec"} THEN "rw" ELSE "ro"

\* WorkloadBank::check of thread t goes on to its next call, or returns.
CheckNext(t) ==
    /\ tpc[t] = "idle"
    /\ sync_pc[t] = "none"
    /\ chk_pc[t] \notin {"off", "done", "error", "raised"}
    /\ LET n == CheckChoice(chk_pc[t], tret[t], chk_i[t], Uid(t))
       IN /\ chk_pc' = [chk_pc EXCEPT ![t] = n.pos]
          /\ chk_i' = [chk_i EXCEPT ![t] = n.i]
          /\ sync_pc' = [sync_pc EXCEPT ![t] = IF n.call = "sync" THEN "add" ELSE "none"]
          /\ tkind' = [tkind EXCEPT ![t] = IF n.call = "sync" THEN "none" ELSE n.call]
          /\ tret' = [tret EXCEPT ![t] = "void"]
          /\ tran' = [tran EXCEPT ![t] = FALSE]
          /\ IF n.call \in {"none", "sync"}
             THEN UNCHANGED <<tpc, tmode, attempts, clientHist>>
             ELSE ClientCall(t, CheckModeOf(n.call))
    /\ UNCHANGED <<barrier, bsync, chk_last, chk_value, lostupd, rwlock, allocs, taborted, tactive, tops, txdone,
                   commits, mem, live, lcount, cntr, rpc, redraws, shadow, wlog, last,
                   syncVars, masterVars, workerVars, histVars, now, mainVars>>

\* Faulty variant: the final read accepts any counter.
FinalCorrectAny(value) == value >= 0

\* check, line 356: the final read of worker 0 finds the counter at zero.
FinalCorrect(value) == value = 0

\* The bodies of check on the context cx, for a thread whose local `last`
\* is lst: the context and the value returned, with the value read.
CheckTx(kind, cx, lst) ==
    LET value == Load(cx.m, StartAddr, "count", 0)
    IN IF kind = "chk_init_w"
       THEN [out |-> Out(Wr(cx, StartAddr, "count", 0, init_counter), "void", "return"),
             value |-> -1]
       ELSE IF kind = "chk_init_r"
       THEN [out |-> Out(cx, Ret(value = init_counter), "return"), value |-> value]
       ELSE IF kind = "chk_read"
       THEN [out |-> Out(cx, "void", "return"), value |-> value]
       ELSE IF kind = "chk_dec"
       THEN (IF value > lst THEN [out |-> Out(cx, "false", "return"), value |-> value]
             ELSE [out |-> Out(Wr(cx, StartAddr, "count", 0, Minus1(value)), "true",
                               "return"),
                   value |-> value])
       ELSE [out |-> Out(cx, Ret(FinalCorrect(value)), "return"), value |-> value]

\* The body of the transaction of thread t in check runs on the reference
\* STM.
CheckBody(t) ==
    /\ tpc[t] = "body"
    /\ tkind[t] \in {"chk_init_w", "chk_init_r", "chk_read", "chk_dec", "chk_final"}
    /\ ~tran[t]
    /\ LET o == CheckTx(tkind[t], Ctx(mem, live), chk_last[t])
       IN /\ mem' = o.out.cx.m
          /\ wlog' = IF tmode[t] = "rw" THEN o.out.cx.log ELSE wlog
          /\ last' = IF tmode[t] = "rw"
                     THEN [kind |-> tkind[t], s |-> 0, r |-> 0,
                           wrote |-> IF o.out.cx.log = <<>> THEN -1
                                     ELSE o.out.cx.log[1].v,
                           readback |-> o.value]
                     ELSE last
          /\ tret' = [tret EXCEPT ![t] = o.out.ret]
          /\ chk_last' = [chk_last EXCEPT ![t] = IF tkind[t] = "chk_read" THEN o.value
                                                  ELSE @]
    /\ tran' = [tran EXCEPT ![t] = TRUE]
    /\ UNCHANGED <<barrier, bsync, sync_pc, chk_pc, chk_i, chk_value, lostupd, rwlock, tpc,
                   tmode, taborted, tactive,
                   tops, attempts, txdone, commits, allocs, clientHist, live, tkind, lcount,
                   cntr, rpc, redraws, shadow, syncVars, masterVars, workerVars, histVars,
                   now, mainVars>>

CheckStep(t) ==
    \/ CheckNext(t)
    \/ BarrierStep(t)
    \/ TxBegin(t)
    \/ CheckBody(t)
    \/ TxEnd(t)

\* --------------------------------------------- the account list, as a whole
\* The segments reached from the first one through the next pointers, at
\* most fuel of them.
RECURSIVE SegList(_, _, _)
SegList(m, a, fuel) ==
    IF a = NullAddr \/ fuel = 0 THEN <<>>
    ELSE <<a>> \o SegList(m, m[a].next, fuel - 1)

\* The list of segments: one entry more than there are addresses when the
\* links form a cycle.
Segments(m) == SegList(m, StartAddr, MaxSegs + 2)

\* The balances of the active accounts of the segment at a: the first count
\* ones.
RECURSIVE ActiveSum(_, _, _)
ActiveSum(m, a, i) ==
    IF i >= m[a].count \/ i \notin Slots THEN 0
    ELSE m[a].accounts[i] + ActiveSum(m, a, i + 1)

\* What the segment at a counts for: its active balances, its parity or its
\* number of active accounts.
SegPart(m, a, part) ==
    IF part = "balance" THEN ActiveSum(m, a, 0)
    ELSE IF part = "parity" THEN m[a].parity
    ELSE m[a].count

\* The sum of a part over the segments segs of m.
RECURSIVE SumOver(_, _, _)
SumOver(m, segs, part) ==
    IF segs = <<>> THEN 0
    ELSE SegPart(m, Head(segs), part) + SumOver(m, Tail(segs), part)

TotalAccounts(m) == SumOver(m, Segments(m), "count")

\* The balance of the account of index id, counted along the list.
RECURSIVE BalanceAt(_, _, _)
BalanceAt(m, segs, id) ==
    IF segs = <<>> THEN 0
    ELSE IF id < m[Head(segs)].count THEN m[Head(segs)].accounts[id]
    ELSE BalanceAt(m, Tail(segs), id - m[Head(segs)].count)

\* The sum of the active balances and of the parities is init_balance for
\* every active account.
Conserved(m) ==
    SumOver(m, Segments(m), "balance") + SumOver(m, Segments(m), "parity")
        = init_balance * TotalAccounts(m)

\* ---------------------------------------------------------- specifications
\* One call of measure(), without a timeout (the reference run) or with a
\* budget. The clock does not advance here, so a budget of 0 stands for one
\* that may run out at any point of master_wait; SpecTime has the clock.
Init ==
    /\ InitSync
    /\ maxtick \in {invalid_tick, 0}
    /\ InitArtifact
    /\ mpc = "spawn"
    /\ TMIdle

Next ==
    \/ MasterStep
    \/ \E w \in Workers : WorkerStep(w)

Spec == Init /\ [][Next]_vars

\* main() from its start, on up to MaxArgc - 2 artifacts.
InitMain ==
    /\ InitSync
    /\ maxtick = invalid_tick
    /\ maxticks = [init |-> invalid_tick, perf |-> invalid_tick, chck |-> invalid_tick]
    /\ argc \in 1..MaxArgc
    /\ artifact = 2
    /\ runner = "none"
    /\ br = BrIdle
    /\ region = NoRegion
    /\ stx = NoShort
    /\ mpc = "main"
    /\ TMIdle

NextMain ==
    \/ Next
    \/ MainStart
    \/ MainLoad
    \/ MainCreate
    \/ MeasureEnter
    \/ MainNext

SpecMain == InitMain /\ [][NextMain]_vars

\* The scheduler does not stop all threads for ever while one of them can
\* take a step.
FairSpec ==
    /\ Init
    /\ [][Next]_vars
    /\ WF_vars(Next)

\* The same with the clock running, budgets of one tick.
InitTime ==
    /\ InitSync
    /\ maxtick \in {invalid_tick, 1}
    /\ InitArtifact
    /\ mpc = "spawn"
    /\ TMIdle

NextTime ==
    \/ MasterStep
    \/ \E w \in Workers : WorkerStep(w)
    \/ Tick

SpecTime == InitTime /\ [][NextTime]_vars

\* Client threads issuing transactions on one region of the reference STM.
\* The Sync of measure() takes no step here: its clock is held at one value.
InitTM ==
    /\ InitSync
    /\ runtime.local = 0
    /\ maxtick = invalid_tick
    /\ InitArtifact
    /\ mpc = "off"
    /\ InitTMAt("idle")

NextTM == \E t \in Threads : ClientStep(t)

SpecTM == InitTM /\ [][NextTM]_vars

\* The workers of measure() in WorkloadBank::init, then, once all are through
\* it, in WorkloadBank::run, on the reference STM.
InitBank == InitTM

NextBank == \E t \in Bankers : BankStep(t)

SpecBank == InitBank /\ [][NextBank]_vars

\* A list of n segments, the last one with c active accounts, as alloc_tx
\* builds it, after d units went from the first account to the last one.
ListMem(n, c, d) ==
    [a \in Addrs |->
        IF a >= StartAddr + n THEN ZeroSegment
        ELSE LET tail == a = StartAddr + n - 1
                 cnt == IF tail THEN c ELSE nbaccounts
             IN [count |-> cnt,
                 next |-> IF tail THEN NullAddr ELSE a + 1,
                 parity |-> 0,
                 accounts |-> [i \in Slots |->
                     IF i >= cnt THEN 0
                     ELSE IF a = StartAddr /\ i = 0 /\ ~(tail /\ c = 1) THEN init_balance - d
                     ELSE IF tail /\ i = c - 1 /\ ~(a = StartAddr /\ c = 1)
                          THEN init_balance + d
                     ELSE init_balance]]]

\* One worker at the last iteration of the loop of WorkloadBank::run, the
\* other workers through theirs, on a list that earlier transactions left, with the count that run
\* starts with or that an earlier long_tx gave it: the number of accounts of
\* the list, or one more (an account was removed since).
InitList ==
    /\ InitSync
    /\ runtime.local = 0
    /\ maxtick = invalid_tick
    /\ InitArtifact
    /\ mpc = "off"
    /\ InitClientAt("idle")
    /\ cntr = [t \in Threads |-> IF t = 1 THEN nbtxperwrk - 1 ELSE nbtxperwrk]
    /\ \E n \in 1..(MaxSegs + 1), c \in 1..nbaccounts, d \in 0..1 :
         /\ (n = 1) => c >= 2
         /\ mem = ListMem(n, c, d)
         /\ shadow = mem
         /\ live = (StartAddr + 1)..(StartAddr + n - 1)
         /\ allocs = n - 1
    /\ \E c \in {nbaccounts, TotalAccounts(mem), TotalAccounts(mem) + 1} :
         lcount = [t \in Threads |-> IF t = 1 THEN c ELSE nbaccounts]
    /\ rpc = [t \in Threads |-> IF t = 1 THEN "run" ELSE "done"]
    /\ chk_pc = [t \in Threads |-> "off"]

NextList == BankStep(1)

SpecList == InitList /\ [][NextList]_vars

\* The workers of measure() issuing transactions on the reference STM, each
\* MaxTx of them. The scheduler does not stop all workers for ever while one
\* of them can take a step; the lock is given no fairness of its own: a
\* waiting tm_begin may be overtaken any number of times.
NextWorkers == \E t \in Bankers : ClientStep(t)

FairTM ==
    /\ InitTM
    /\ [][NextWorkers]_vars
    /\ WF_vars(NextWorkers)

\* The workers of measure() in WorkloadBank::check, on the list as init left
\* it, on the reference STM.
InitCheck ==
    /\ InitSync
    /\ runtime.local = 0
    /\ maxtick = invalid_tick
    /\ InitArtifact
    /\ mpc = "off"
    /\ InitClientAt("idle")
    /\ mem = ListMem(1, nbaccounts, 0)
    /\ shadow = mem
    /\ live = {}
    /\ allocs = 0
    /\ lcount = [t \in Threads |-> nbaccounts]
    /\ cntr = [t \in Threads |-> nbtxperwrk]
    /\ rpc = [t \in Threads |-> "done"]
    /\ chk_pc = [t \in Threads |-> IF t \in Bankers THEN "sync1" ELSE "off"]

NextCheck == \E t \in Bankers : CheckStep(t)

SpecCheck == InitCheck /\ [][NextCheck]_vars

\* ---- check on a library without isolation between transactions
\* The library under test here gives every tm_begin a transaction at once and
\* takes no lock: reads and writes go to the shared memory in place, every
\* tm_end commits. The decrement of check is then two steps, its read and its
\* write, between which other transactions may run.

\* The memory a decrement sees: the shared memory, with the counter it read.
ViewOf(m, value) == [m EXCEPT ![StartAddr].count = value]

\* check, line 341: the decrement reads the counter.
LostRead(t) ==
    /\ tpc[t] = "body"
    /\ tkind[t] = "chk_dec"
    /\ ~tran[t]
    /\ chk_value[t] = -1
    /\ chk_value' = [chk_value EXCEPT ![t] = Load(mem, StartAddr, "count", 0)]
    /\ UNCHANGED <<barrier, bsync, sync_pc, chk_pc, chk_i, chk_last, lostupd, rwlock, tpc,
                   tmode, taborted, tactive, tops, attempts, txdone, commits, allocs,
                   clientHist, bankVars, syncVars, masterVars, workerVars, histVars, now,
                   mainVars>>

\* check, lines 342-345: the decrement compares the value it read with last
\* and writes the counter.
LostWrite(t) ==
    /\ tpc[t] = "body"
    /\ tkind[t] = "chk_dec"
    /\ ~tran[t]
    /\ chk_value[t] # -1
    /\ LET o == CheckTx("chk_dec", Ctx(ViewOf(mem, chk_value[t]), live), chk_last[t])
       IN /\ mem' = o.out.cx.m
          /\ wlog' = o.out.cx.log
          /\ last' = [kind |-> "chk_dec", s |-> 0, r |-> 0,
                      wrote |-> IF o.out.cx.log = <<>> THEN -1 ELSE o.out.cx.log[1].v,
                      readback |-> o.value]
          /\ tret' = [tret EXCEPT ![t] = o.out.ret]
          /\ lostupd' = IF o.out.ret = "true"
                        THEN [seen |-> lostupd.seen \cup {o.value},
                              twice |-> lostupd.twice \/ o.value \in lostupd.seen]
                        ELSE lostupd
    /\ tran' = [tran EXCEPT ![t] = TRUE]
    /\ chk_value' = [chk_value EXCEPT ![t] = -1]
    /\ UNCHANGED <<barrier, bsync, sync_pc, chk_pc, chk_i, chk_last, rwlock, tpc, tmode,
                   taborted, tactive, tops, attempts, txdone, commits, allocs, clientHist,
                   live, tkind, lcount, cntr, rpc, redraws, shadow, syncVars, masterVars,
                   workerVars, histVars, now, mainVars>>

\* The bodies of check that make one access.
LostBody(t) ==
    /\ tkind[t] # "chk_dec"
    /\ CheckBody(t)

\* ~Transaction: tm_end commits.
LostEnd(t) ==
    /\ tpc[t] = "body"
    /\ tran[t]
    /\ ClientEnd(t, TRUE)
    /\ shadow' = mem
    /\ wlog' = <<>>
    /\ last' = NoLast
    /\ UNCHANGED <<rwlock, allocs, mem, live, tkind, tran, tret, lcount, cntr, rpc, redraws,
                   syncSide>>

LostStep(t) ==
    \/ CheckNext(t)
    \/ BarrierStep(t)
    \/ AnyBegin(t)
    \/ LostBody(t)
    \/ LostRead(t)
    \/ LostWrite(t)
    \/ LostEnd(t)

NextLost == \E t \in Bankers : LostStep(t)

SpecLost == InitCheck /\ [][NextLost]_vars

\* ---- the reference library: tm_create, tm_alloc, tm_free, tm_destroy
regionRest == <<syncVars, masterVars, argc, artifact, maxticks, runner, br, stx, workerVars,
                histVars, now, tmVars>>

\* link_reset, lines 109-112.
link_reset(ls, link) == [ls EXCEPT ![link] = [prev |-> link, next |-> link]]

\* Faulty variant: the link before base is not told of the new link.
link_insert_back(ls, link, base) ==
    LET prev == ls[base].prev
        l1 == [ls EXCEPT ![link] = [prev |-> prev, next |-> base]]
    IN [l1 EXCEPT ![base].prev = link]

\* link_insert, lines 118-124.
link_insert(ls, link, base) ==
    LET prev == ls[base].prev
        l1 == [ls EXCEPT ![link] = [prev |-> prev, next |-> base]]
        l2 == [l1 EXCEPT ![base].prev = link]
    IN [l2 EXCEPT ![prev].next = link]

\* link_remove, lines 129-134.
link_remove(ls, link) ==
    LET prev == ls[link].prev
        next == ls[link].next
        l1 == [ls EXCEPT ![prev].next = next]
    IN [l1 EXCEPT ![next].prev = prev]

\* The alignments and sizes a caller may ask for: a power of two, and a
\* positive multiple of it.
Aligns == {2 ^ k : k \in 0..MaxAlignExp}

SizesOf(align) == {align * m : m \in 1..MaxMult}

\* tm_create, line 367: the alignment of the allocations.
AlignAlloc(align) == IF align < PtrSize THEN PtrSize ELSE align

\* Faulty variant: the link is not padded to the alignment.
DeltaAllocBare(align_alloc) == LinkSize

\* tm_create, line 381: the room kept for the link at the start of a block.
DeltaAlloc(align_alloc) == ((LinkSize + align_alloc - 1) \div align_alloc) * align_alloc

\* The bytes from..to-1 of a block set to v.
Fill(bs, from, to, v) == [i \in 1..Len(bs) |-> IF i - 1 >= from /\ i - 1 < to THEN v ELSE bs[i]]

\* A block of n bytes as posix_memalign gives it.
Junk(n) == [i \in 1..n |-> "junk"]

\* tm_create, lines 362-384: any failure answers invalid_shared.
TmCreate ==
    /\ region.pc = "none"
    /\ \/ region' = [region EXCEPT !.pc = "invalid"]
       \/ \E align \in Aligns : \E size \in SizesOf(align) : \E s \in Blocks :
            region' = [region EXCEPT
                !.pc = "use", !.st = "live", !.start = s, !.lock = "init",
                !.align = align, !.size = size,
                !.align_alloc = AlignAlloc(align),
                !.delta_alloc = DeltaAlloc(AlignAlloc(align)),
                !.links = link_reset(@, Base),
                !.heap = {s}]
    /\ UNCHANGED regionRest

\* tm_alloc, lines 444-455, in a read-write transaction (which holds the
\* lock of the region): nomem_alloc when posix_memalign fails, which
\* otherwise answers a free block at a multiple of the alignment.
TmAlloc ==
    /\ region.pc = "use"
    /\ region.calls < MaxAllocs
    /\ \/ region' = [region EXCEPT !.target = NullPtr, !.taddr = 0, !.tbytes = <<>>,
                                    !.asked = 0, !.calls = @ + 1]
       \/ \E b \in Blocks \ region.heap : \E size \in SizesOf(region.align) :
          \E k \in 1..MaxBase :
            LET delta_alloc == region.delta_alloc
                got == Junk(delta_alloc + size)
                linked == Fill(got, 0, LinkSize, "link")
            IN region' = [region EXCEPT
                   !.heap = @ \cup {b},
                   !.links = link_insert(@, b, Base),
                   !.target = [blk |-> b, off |-> delta_alloc],
                   !.taddr = region.align_alloc * k,
                   !.tbytes = Fill(linked, delta_alloc, delta_alloc + size, "zero"),
                   !.asked = size,
                   !.calls = @ + 1,
                   !.out = @ \cup {b}]
    /\ UNCHANGED regionRest

\* What is left of the last tm_alloc once another call is made.
Forget(r) == [r EXCEPT !.target = NullPtr, !.taddr = 0, !.tbytes = <<>>, !.asked = 0]

\* tm_free, lines 457-463, of a segment tm_alloc answered.
TmFree ==
    /\ region.pc = "use"
    /\ \E b \in region.out :
         LET given == [blk |-> b, off |-> region.delta_alloc]
             segment == [blk |-> given.blk, off |-> given.off - region.delta_alloc]
         IN /\ segment.off = 0
            /\ region' = [Forget(region) EXCEPT
                   !.links = link_remove(@, segment.blk),
                   !.heap = @ \ {segment.blk},
                   !.dfree = @ \/ segment.blk \notin region.heap,
                   !.out = @ \ {b}]
    /\ UNCHANGED regionRest

\* tm_destroy is called, no transaction outstanding.
TmDestroyCall ==
    /\ region.pc = "use"
    /\ region' = [Forget(region) EXCEPT !.pc = "loop"]
    /\ UNCHANGED regionRest

\* tm_destroy, lines 389-395: one turn of the loop that frees the segments
\* of the list.
TmDestroyLoop ==
    /\ region.pc = "loop"
    /\ LET alloc == region.links[Base].next
       IN region' = IF alloc = Base
                    THEN [region EXCEPT !.pc = "free_start"]
                    ELSE [region EXCEPT
                             !.links = link_remove(@, alloc),
                             !.heap = @ \ {alloc},
                             !.dfree = @ \/ alloc \notin region.heap]
    /\ UNCHANGED regionRest

\* tm_destroy, line 396: free(region->start).
TmDestroyStart ==
    /\ region.pc = "free_start"
    /\ region' = [region EXCEPT !.pc = "free_region",
                                !.heap = @ \ {region.start},
                                !.dfree = @ \/ region.start \notin region.heap]
    /\ UNCHANGED regionRest

\* tm_destroy, line 397: free(region).
TmDestroyRegion ==
    /\ region.pc = "free_region"
    /\ region' = [region EXCEPT !.pc = "cleanup", !.st = "freed",
                                !.dfree = @ \/ region.st # "live"]
    /\ UNCHANGED regionRest

\* tm_destroy, line 398: lock_cleanup(&(region->lock)) destroys the rwlock
\* inside the struct. On a freed struct the behaviour is undefined: the call
\* may return or the process may crash.
TmDestroyCleanup ==
    /\ region.pc = "cleanup"
    /\ \E o \in IF region.st = "live" THEN {"done"} ELSE {"done", "crashed"} :
         region' = [region EXCEPT !.pc = o, !.lock = "destroyed",
                                  !.uaf = @ \/ region.st # "live"]
    /\ UNCHANGED regionRest

InitRegion ==
    /\ InitMain
    /\ argc = 3

NextRegion ==
    \/ TmCreate
    \/ TmAlloc
    \/ TmFree
    \/ TmDestroyCall
    \/ TmDestroyLoop
    \/ TmDestroyStart
    \/ TmDestroyRegion
    \/ TmDestroyCleanup

SpecRegion == InitRegion /\ [][NextRegion]_vars

\* ---- bounded_run alone
brRest == <<syncVars, masterVars, argc, artifact, maxticks, runner, region, stx, workerVars,
            histVars, now, tmVars>>

\* bounded_run, lines 271-280: the caller locks the mutex and starts the
\* runner thread.
BrSpawn ==
    /\ br.caller = "idle"
    /\ br' = [br EXCEPT !.caller = "spawned", !.runner = "func", !.lock = "caller"]
    /\ UNCHANGED brRest

\* bounded_run, line 281: wait_for releases the mutex and waits.
BrWait ==
    /\ br.caller = "spawned"
    /\ br' = [br EXCEPT !.caller = "waiting", !.lock = "free"]
    /\ UNCHANGED brRest

\* Time passes while the caller is in bounded_run.
BrTick ==
    /\ br.caller \in {"spawned", "waiting", "notified", "timedout", "joining"}
    /\ br.clock <= MaxSide
    /\ br' = [br EXCEPT !.clock = @ + 1]
    /\ UNCHANGED brRest

\* The runner, line 275: func returns.
BrFuncReturn ==
    /\ br.runner = "func"
    /\ br' = [br EXCEPT !.runner = "lock"]
    /\ UNCHANGED brRest

\* The runner, line 275: func throws (TransactionCreate); the exception
\* leaves the thread function and the process is terminated.
BrFuncThrow ==
    /\ br.runner = "func"
    /\ br.caller \notin {"returned", "overrun", "terminated"}
    /\ br' = [br EXCEPT !.runner = "threw", !.caller = "terminated"]
    /\ UNCHANGED brRest

\* The runner, line 277: it locks the mutex; a detached runner finds the
\* mutex of a frame that is gone.
BrRunnerLock ==
    /\ br.runner = "lock"
    /\ br.lock \in {"free", "destroyed"}
    /\ br' = IF br.lock = "free"
             THEN [br EXCEPT !.runner = "notify", !.lock = "runner"]
             ELSE [br EXCEPT !.runner = "dangling"]
    /\ UNCHANGED brRest

\* The runner, line 278: notify_all wakes a caller that waits.
BrNotify ==
    /\ br.runner = "notify"
    /\ br' = [br EXCEPT !.runner = "unlock",
                        !.caller = IF @ = "waiting" THEN "notified" ELSE @]
    /\ UNCHANGED brRest

\* The runner, line 279: it unlocks the mutex and ends.
BrRunnerUnlock ==
    /\ br.runner = "unlock"
    /\ br' = [br EXCEPT !.runner = "exited", !.lock = "free"]
    /\ UNCHANGED brRest

\* wait_for: the budget has elapsed.
BrTimeout ==
    /\ br.caller = "waiting"
    /\ br.clock >= MaxSide
    /\ br' = [br EXCEPT !.caller = "timedout"]
    /\ UNCHANGED brRest

\* wait_for: the wait has no predicate and condition variables may wake
\* spuriously.
BrSpurious ==
    /\ br.caller = "waiting"
    /\ br' = [br EXCEPT !.caller = "notified"]
    /\ UNCHANGED brRest

\* wait_for locks the mutex again and returns its status; lines 281-285: on
\* a timeout the runner is detached and BoundedOverrun thrown (the frame,
\* with its mutex, is gone), otherwise the caller joins the runner,
\* holding the mutex.
BrWake ==
    /\ br.caller \in {"notified", "timedout"}
    /\ br.lock = "free"
    /\ br' = IF br.caller = "timedout"
             THEN [br EXCEPT !.caller = "overrun", !.status = "timeout", !.lock = "destroyed"]
             ELSE [br EXCEPT !.caller = "joining", !.status = "no_timeout", !.lock = "caller"]
    /\ UNCHANGED brRest

\* bounded_run, line 285: the runner has ended, join returns and so does
\* bounded_run.
BrJoin ==
    /\ br.caller = "joining"
    /\ br.runner = "exited"
    /\ br' = [br EXCEPT !.caller = "returned", !.lock = "destroyed"]
    /\ UNCHANGED brRest

InitBounded ==
    /\ InitMain
    /\ argc = 3

NextBounded ==
    \/ BrSpawn
    \/ BrWait
    \/ BrTick
    \/ BrFuncReturn
    \/ BrFuncThrow
    \/ BrRunnerLock
    \/ BrNotify
    \/ BrRunnerUnlock
    \/ BrTimeout
    \/ BrSpurious
    \/ BrWake
    \/ BrJoin

SpecBounded == InitBounded /\ [][NextBounded]_vars

\* ---- the Barrier alone
\* A thread calls sync() again, at most MaxRounds times.
BarrierCall(t) ==
    /\ sync_pc[t] = "none"
    /\ bsync[t].returned < MaxRounds
    /\ sync_pc' = [sync_pc EXCEPT ![t] = "add"]
    /\ UNCHANGED <<barrier, bsync, chk_pc, chk_i, chk_last, chk_value, lostupd, rwlock, tpc, tmode, taborted,
                   tactive, tops, attempts, txdone, commits, allocs, clientHist, bankVars,
                   syncVars, masterVars, workerVars, histVars, now, mainVars>>

\* A Barrier of cardinal nbworkers used by nbworkers threads.
InitBarrier == InitCheck

NextBarrier == \E t \in Bankers : BarrierCall(t) \/ BarrierStep(t)

SpecBarrier == InitBarrier /\ [][NextBarrier]_vars

\* A thread that can take a step eventually takes one (the waits of sync()
\* are spin loops, which a scheduled thread leaves once their condition
\* holds).
FairBarrier ==
    /\ InitBarrier
    /\ [][NextBarrier]_vars
    /\ \A t \in Bankers : WF_vars(BarrierCall(t) \/ BarrierStep(t))

\* ---- the check phase of measure(): the worker lambdas in check, the master
\* in master_wait
\* Transaction::Transaction, lines 311-314: tm_begin returns invalid_tx (the
\* reference does when its lock cannot be taken, tm.c:413-423) and the
\* constructor throws TransactionBegin, which transactional() does not catch:
\* it leaves check.
CheckRaise(t) ==
    /\ tpc[t] = "begin"
    /\ chk_pc[t] \notin {"off", "done", "error", "raised"}
    /\ tpc' = [tpc EXCEPT ![t] = "idle"]
    /\ chk_pc' = [chk_pc EXCEPT ![t] = "raised"]
    /\ UNCHANGED <<barrier, bsync, sync_pc, chk_i, chk_last, chk_value, lostupd, rwlock, tmode, taborted, tactive,
                   tops, attempts, txdone, commits, allocs, clientHist, bankVars, syncVars,
                   masterVars, workerVars, histVars, now, mainVars>>

\* What the worker lambda passes to worker_notify when check has ended at
\* position pos: its return value, or the fixed string of the catch block.
CheckResult(pos) ==
    IF pos = "done" THEN null
    ELSE IF pos = "error" THEN WorkloadError
    ELSE InternalError

\* The worker lambda of measure(), lines 170-173 and 178-179: check has
\* returned or thrown, the worker calls worker_notify.
WorkerCheckEnd(w) ==
    /\ running
    /\ wpc[w] = "check"
    /\ chk_pc[w] \in {"done", "error", "raised"}
    /\ werr' = [werr EXCEPT ![w] = CheckResult(chk_pc[w])]
    /\ wcaught' = [wcaught EXCEPT ![w] = (chk_pc[w] = "raised")]
    /\ wpc' = [wpc EXCEPT ![w] = IF chk_pc[w] = "done" THEN "wn_add" ELSE "wn_errmsg"]
    /\ UNCHANGED <<syncVars, masterVars, wstage, histVars, now, mainVars, tmVars>>

\* The check phase once every worker has passed its gate: the workers are in
\* WorkloadBank::check and the master waits on the latch, with no timeout (the
\* evaluation of the first artifact).
InitCheckPhase ==
    /\ status = "Run"
    /\ nbready = 0
    /\ errmsg = null
    /\ runtime = [total |-> 0, local |-> 0]
    /\ donelatch = FALSE
    /\ now = 0
    /\ mpc = "wait"
    /\ mstage = StageCheck
    /\ maxtick = invalid_tick
    /\ InitArtifact
    /\ waitFrom = 0
    /\ error = null
    /\ result = [kind |-> "time", val |-> 0]
    /\ times = [i \in 1..StageCheck |-> 0]
    /\ threads = [w \in Workers |-> "joinable"]
    /\ exitCode = NoExit
    /\ regionDestroyed = FALSE
    /\ libUnloaded = FALSE
    /\ wpc = [w \in Workers |-> "check"]
    /\ wstage = [w \in Workers |-> StageCheck]
    /\ werr = [w \in Workers |-> null]
    /\ wcaught = [w \in Workers |-> FALSE]
    /\ opened = StageCheck + 1
    /\ arrived = Workers
    /\ notified = {}
    /\ bodies = [w \in Workers |-> 1]
    /\ published = {}
    /\ raises = 0
    /\ startAt = 0
    /\ stopAt = -1
    /\ stopRaced = FALSE
    /\ elapsed = [i \in 1..StageCheck |-> 0]
    /\ InitClientAt("idle")
    /\ mem = ListMem(1, nbaccounts, 0)
    /\ shadow = mem
    /\ live = {}
    /\ allocs = 0
    /\ lcount = [t \in Threads |-> nbaccounts]
    /\ cntr = [t \in Threads |-> nbtxperwrk]
    /\ rpc = [t \in Threads |-> "done"]
    /\ chk_pc = [t \in Threads |-> IF t \in Bankers THEN "sync1" ELSE "off"]

NextCheckPhase ==
    \/ MasterWaitRaised
    \/ MasterInspect
    \/ MasterJoin
    \/ MasterJoinThread
    \/ MainResult
    \/ MainDestroy
    \/ MainUnload
    \/ MainExit
    \/ \E w \in Bankers :
         \/ CheckStep(w)
         \/ CheckRaise(w)
         \/ WorkerCheckEnd(w)
         \/ WorkerNotifyErrmsg(w)
         \/ WorkerNotifyAbort(w)
         \/ WorkerNotifyAdd(w)
         \/ WorkerNotifyReset(w)
         \/ WorkerNotifyStatus(w)
         \/ WorkerNotifyStop(w)
         \/ WorkerNotifyRaise(w)
         \/ WorkerWaitLoad(w)

\* Every thread that can take a step eventually takes one: no step of this
\* specification is a spin.
FairCheckPhase ==
    /\ InitCheckPhase
    /\ [][NextCheckPhase]_vars
    /\ WF_vars(NextCheckPhase)

\* One client thread issuing transactions on an arbitrary STM (the client
\* keeps no state shared between threads).
InitAny ==
    /\ InitTM
    /\ tpc[1] = "idle"

NextAny == AnyStep(1)

SpecAny == InitAny /\ [][NextAny]_vars

\* ================================================================ properties
\* The master holds the fresh result of a master_wait that returned: it has
\* not opened another phase since, and did not leave through a timeout.
Fresh ==
    /\ result.kind # "none"
    /\ \/ mpc \in {"notify", "join", "joining", "return", "destroy", "unload", "exit"}
       \/ mpc = "done" /\ exitCode \in {0, 1}

\* C1: no worker starts the body of a phase before all workers have arrived
\* at the gate of that phase (saw Wait and incremented the ready counter);
\* while a worker is in a body the status is Run or Abort, never Wait.
C1_GateBeforeBody ==
    \A w \in Workers :
        /\ bodies[w] > 0 => arrived = Workers
        /\ wpc[w] = "body" => arrived = Workers /\ status \in {"Run", "Abort"}

\* A worker is in the body of the second phase while another one has already
\* reported an error in it.
C1_Witness ==
    \E w \in Workers : wpc[w] = "body" /\ status = "Abort" /\ opened = 2

\* C2: a worker that notified the current phase is not at the gate or in a
\* body again before the master opens the next phase; the master opens a
\* phase only when every worker has notified the previous one; every worker
\* starts exactly one body per phase, and two workers in a body are in the
\* body of the same stage.
C2_OneBodyPerPhase ==
    /\ \A w \in Workers :
         /\ bodies[w] <= 1
         /\ w \in notified => wpc[w] \notin {"ww_add", "ww_reset", "ww_run", "ww_spin", "body"}
    /\ (mpc = "notify" /\ opened > 0) => notified = Workers
    /\ mpc = "inspect" => \A w \in Workers : bodies[w] = 1
    /\ \A w, v \in Workers : (wpc[w] = "body" /\ wpc[v] = "body") => wstage[w] = wstage[v]

\* A worker that notified the second phase spins at the gate while another
\* worker is still in the body of that phase.
C2_Witness ==
    \E w, v \in Workers :
        /\ opened = 2
        /\ w \in notified /\ wpc[w] = "ww_load"
        /\ wpc[v] = "body"

\* C3: master_wait returns without timeout only when all workers have called
\* worker_notify for the phase and none is in the body; the latch is raised
\* once per phase, by the worker that brought the ready counter to W.
C3_LatchAfterAllNotified ==
    /\ raises <= 1
    /\ donelatch => notified = Workers /\ raises = 1
    /\ mpc = "inspect" =>
         /\ notified = Workers
         /\ raises = 1
         /\ \A w \in Workers : wpc[w] # "body" /\ bodies[w] = 1
    /\ \A w \in Workers : wpc[w] = "wn_raise" => notified = Workers /\ raises = 0

\* The master inspects the result of the third phase.
C3_Witness == mpc = "inspect" /\ opened = 3 /\ raises = 1

\* C4: master_wait returns an error string exactly when some worker called
\* worker_notify with an error in that phase; the string is non-null and one
\* of those published in the phase; otherwise it returns the run time. After
\* the latch the master only sees Done or Fail.
C4_ErrorIffPublished ==
    /\ mpc = "inspect" => status \in {"Done", "Fail"}
    /\ Fresh =>
         /\ result.kind \in {"time", "error"}
         /\ result.kind = "error" <=> published # {}
         /\ result.kind = "error" => result.val # null /\ result.val \in published
         /\ result.kind = "error" => error = result.val

\* An error is returned for a phase in which two different errors were
\* published.
C4_Witness == Fresh /\ result.kind = "error" /\ Cardinality(published) = 2

\* C5: the time master_wait returns for a phase that ends Done is the time
\* between that phase's master_notify and the last worker_notify of the same
\* phase (stated for the runs in which every phase's clock was started
\* before it was stopped).
C5_PhaseTimeAlone ==
    (Fresh /\ result.kind = "time" /\ ~stopRaced) => result.val = stopAt - startAt

\* C6: after a timeout of master_wait, measure() detaches every worker thread
\* and joins none, and the process quick-exits with a non-zero code, the
\* region not destroyed and the artifact not unloaded.
C6_TimeoutQuickExit ==
    /\ (mpc = "quick_exit" \/ exitCode = 2) =>
         /\ \A w \in Workers : threads[w] # "joined"
         /\ ~regionDestroyed
         /\ ~libUnloaded
         /\ exitCode \in {NoExit, 2}
    /\ (mpc = "quick_exit" \/ exitCode = 2) => \A w \in Workers : threads[w] = "detached"
    /\ exitCode = 2 => mpc = "done"

\* The process has quick-exited while a worker was inside a body.
C6_Witness == exitCode = 2 /\ \E w \in Workers : wpc[w] = "body"

\* C7: once master_join has set Quit every worker is in the first loop of
\* worker_wait or has returned, every worker eventually returns, and the join
\* of all threads eventually completes.
C7_QuitTerminatesWorkers ==
    /\ [](status = "Quit" => \A w \in Workers : wpc[w] \in {"ww_load", "exited"})
    /\ (status = "Quit") ~>
           (\A w \in Workers : wpc[w] = "exited" /\ threads[w] = "joined")

\* All threads are joined after a failed phase in which a worker left through
\* the catch block.
C7_Witness ==
    /\ \A w \in Workers : threads[w] = "joined"
    /\ error # null
    /\ \E w \in Workers : wcaught[w]

\* C8: the master opens init, the NbRepeats runs and the check in this order
\* and opens nothing after the first error; a worker in a body is in the body
\* of the stage the master is driving.
C8_PhaseOrderAgreed ==
    /\ opened <= NbRepeats + 2
    /\ mpc \in {"start", "wait", "inspect"} => opened = mstage + 1
    /\ \A w \in Workers : wpc[w] = "body" => wstage[w] = mstage /\ opened = wstage[w] + 1
    /\ error # null => /\ mpc \notin {"notify", "start", "wait", "inspect"}
                       /\ opened = Len(times) + 1
    /\ (error = null /\ mpc \in {"join", "joining", "return", "destroy", "unload", "exit"}) =>
           opened = NbRepeats + 2 /\ Len(times) = NbRepeats + 2

\* A worker is in the body of the check.
C8_Witness == \E w \in Workers : wpc[w] = "body" /\ mstage = StageCheck /\ opened = NbRepeats + 2

\* C9: on the reference STM no read-write transaction is active (between
\* tm_begin and tm_end) together with another transaction; the lock counts
\* exactly the active transactions.
C9_WriterExclusive ==
    /\ \A t, u \in Threads : (t # u /\ tactive[t] = "rw") => tactive[u] = "none"
    /\ rwlock.readers = Cardinality({t \in Threads : tactive[t] = "ro"})
    /\ rwlock.writer <=> \E t \in Threads : tactive[t] = "rw"

\* A read-write transaction is active while another thread waits in tm_begin
\* for a read-only one.
C9_Witness ==
    \E t, u \in Threads :
        /\ tactive[t] = "rw" /\ tops[t] > 0
        /\ tpc[u] = "begin" /\ tmode[u] = "ro"

\* Every thread is inside a read-only transaction at the same time.
C9_ReadersTogether == \A t \in Threads : tactive[t] = "ro"

\* C10: on the reference STM no operation and no tm_end asks for an abort, so
\* transactional() never starts a second attempt: every call that returned,
\* or that was left by TransactionAlloc, committed its first attempt.
C10_NoRetry ==
    \A t \in Threads :
        /\ attempts[t] <= 1
        /\ ~taborted[t]
        /\ tpc[t] \in {"idle", "failed"} => tactive[t] = "none"
        /\ commits[t] = txdone[t] + (IF tpc[t] = "failed" THEN 1 ELSE 0)

\* A thread has committed two transactions, the last one after operations.
C10_Witness ==
    \E t \in Threads : txdone[t] = 2 /\ commits[t] = 2 /\ tops[t] > 0 /\ tpc[t] = "idle"

\* C13: once an operation of a transaction asked to abort, the client makes
\* no further call on that transaction: it is marked aborted, the call is
\* back at beginning a new transaction, and tm_end is not called on it. On a
\* transaction no operation of which failed, tm_end is called exactly once.
C13_NoCallAfterFailure ==
    \A t \in Threads :
        /\ tlate[t] = 0
        /\ tends[t] <= 1
        /\ tfailed[t] => taborted[t] /\ tends[t] = 0 /\ tpc[t] = "begin"
        /\ tpc[t] \in {"body", "unwind"} => tends[t] = 0
        /\ (~tfailed[t] /\ attempts[t] > 0 /\ tpc[t] \notin {"body", "unwind"}) =>
               tends[t] = 1

\* The second operation of a transaction failed.
C13_Witness == \E t \in Threads : tfailed[t] /\ tops[t] = 2 /\ tpc[t] = "begin"

\* C14: transactional() begins one transaction more than the retry signals
\* raised so far in the call, whether by an operation or by tm_end; it has
\* returned only from an attempt whose body completed and whose tm_end
\* returned true, with the value of that attempt.
C14_ReturnsCommittedAttempt ==
    \A t \in Threads :
        /\ tpc[t] \in {"body", "unwind"} => attempts[t] = tsignals[t] + 1
        /\ tpc[t] = "begin" => attempts[t] = tsignals[t]
        /\ tpc[t] # "idle" => tretAtt[t] = 0
        /\ (tpc[t] = "idle" /\ attempts[t] > 0) =>
               /\ tretAtt[t] = attempts[t]
               /\ tcommitAtt[t] = attempts[t]
               /\ attempts[t] = tsignals[t] + 1
               /\ ~taborted[t] /\ ~tfailed[t]

\* A call returned the value of its second attempt, after one retry signal,
\* as the second call of the thread.
C14_Witness ==
    \E t \in Threads : tpc[t] = "idle" /\ tretAtt[t] = 2 /\ tsignals[t] = 1 /\ txdone[t] = 2

\* C11: on the reference STM the shared memory is, whenever no read-write
\* transaction is active, exactly the memory made of the committed writes, so
\* a transaction that begins after a commit reads what was committed until
\* another write commits; while a read-write transaction is active the memory
\* differs from it by that transaction's writes only. A read that follows a
\* write of the same transaction to the same account returns the value
\* written, and the read-only transaction of init reads the balance that a
\* read-write transaction of init committed.
C11_ReadsSeeCommittedWrites ==
    /\ ~rwlock.writer => mem = shadow /\ wlog = <<>>
    /\ mem = ApplyLog(shadow, wlog)
    /\ (last.kind = "short" /\ last.s = last.r /\ last.wrote >= 0) =>
           last.readback = last.wrote
    /\ \A t \in Bankers : (tkind[t] = "init_r" /\ tran[t]) => tret[t] = "true"

\* A read-only long_tx has counted one account more than init left, after
\* the alloc_tx of another worker committed.
C11_Witness ==
    \E t \in Bankers :
        /\ tkind[t] = "long" /\ tran[t] /\ tactive[t] = "ro"
        /\ lcount[t] = nbaccounts + 1
        /\ tret[t] = "true"

\* C15: the sum of the balances of the active accounts plus the sum of the
\* parities of the segments is init_balance times the number of active
\* accounts, in the committed memory and in the memory every transaction
\* leaves; so no long_tx returns false and no worker reports "Violated
\* isolation or atomicity".
C15_MoneyConserved ==
    /\ Conserved(shadow)
    /\ Conserved(mem)
    /\ \A t \in Bankers :
         /\ (tkind[t] = "long" /\ tran[t]) => tret[t] = "true"
         /\ rpc[t] # "error"

\* The last account was removed while it held more than init_balance, so a
\* parity is positive, and a long_tx then returned true.
C15_Witness ==
    \E t \in Bankers :
        /\ tkind[t] = "long" /\ tran[t] /\ tret[t] = "true"
        /\ mem[StartAddr].parity > 0
        /\ TotalAccounts(mem) = nbaccounts - 1

\* Every active account of m holds a balance of at least zero.
NonNegative(m) ==
    \A k \in 1..Len(Segments(m)) :
        \A i \in Slots : i < m[Segments(m)[k]].count => m[Segments(m)[k]].accounts[i] >= 0

\* C16: no active account holds a negative balance, in the committed memory
\* and in the memory every transaction leaves; a transfer that wrote to the
\* sender wrote a value of at least zero.
C16_NoNegativeBalance ==
    /\ NonNegative(shadow)
    /\ NonNegative(mem)
    /\ last.kind = "short" => last.wrote >= -1
    /\ \A t \in Bankers : (tkind[t] = "long" /\ tran[t]) => tret[t] # "false"

\* A short_tx was asked to transfer from an account that holds nothing to
\* another one, and wrote nothing.
C16_Witness ==
    \E t \in Bankers :
        /\ tkind[t] = "short" /\ tran[t] /\ tactive[t] = "rw" /\ tret[t] = "true"
        /\ last.kind = "short" /\ last.s # last.r /\ last.wrote = -1
        /\ BalanceAt(mem, Segments(mem), last.s) = 0

\* The list of m ends with a null pointer after at most as many segments as
\* there are addresses, visits no segment twice, and only its last segment is
\* partially full: every other one holds nbaccounts active accounts, the last
\* one between 1 and nbaccounts.
WellFormed(m) ==
    LET segs == Segments(m)
    IN /\ Len(segs) \in 1..(MaxSegs + 1)
       /\ m[segs[Len(segs)]].next = NullAddr
       /\ \A j, k \in 1..Len(segs) : j # k => segs[j] # segs[k]
       /\ \A k \in 1..(Len(segs) - 1) : m[segs[k]].count = nbaccounts
       /\ m[segs[Len(segs)]].count \in 1..nbaccounts

\* The last segment of the list of m and the one before it.
TailPair(m) ==
    LET segs == Segments(m)
    IN {segs[k] : k \in {j \in 1..Len(segs) : j >= Len(segs) - 1}}

\* The segments a transaction allocated, from its log.
AllocatedBy(log) == {log[k].a : k \in {j \in 1..Len(log) : log[j].op = "alloc"}}

\* The segments whose count, parity or next-pointer differ between m1 and m2.
LinksChanged(m1, m2) ==
    {a \in Addrs : \/ m1[a].count # m2[a].count
                   \/ m1[a].parity # m2[a].parity
                   \/ m1[a].next # m2[a].next}

\* C17: once init is over, the list of account segments is null-terminated and acyclic, all its
\* segments but the last hold nbaccounts active accounts and the last one
\* between 1 and nbaccounts, in the committed memory and in the memory every
\* transaction leaves; an alloc_tx changes a count, a parity or a next-pointer
\* only in the last segment of the list it found, in the one before it, and in
\* the segment it allocated (the new last one).
C17_ListWellFormed ==
    RunOpen =>
        /\ WellFormed(shadow)
        /\ WellFormed(mem)
        /\ last.kind = "alloc" =>
             LinksChanged(shadow, mem) \subseteq (TailPair(shadow) \cup AllocatedBy(wlog))

\* An alloc_tx found a list of MaxSegs + 1 segments and freed the last one.
C17_Witness ==
    /\ last.kind = "alloc"
    /\ Len(Segments(shadow)) = MaxSegs + 1
    /\ Len(Segments(mem)) = MaxSegs
    /\ shadow[StartAddr].parity = mem[StartAddr].parity

\* The segments a transaction freed, from its log.
FreedBy(log) == {log[k].a : k \in {j \in 1..Len(log) : log[j].op = "free"}}

\* C18: once init is over, no transaction frees the first segment of the
\* region and none dereferences a null predecessor; an alloc_tx that finds
\* the first segment to be the last one frees nothing, and if it lowers the
\* count it does so by one and leaves it above zero; a segment that is freed
\* is the last one of the list, reached through the next-pointer of the one
\* before it, which is null afterwards; the number of active accounts is
\* never below 2.
C18_FirstSegmentKept ==
    RunOpen =>
        /\ StartAddr \notin FreedBy(wlog)
        /\ \A t \in Bankers : tpc[t] # "crashed"
        /\ (last.kind = "alloc" /\ Len(Segments(shadow)) = 1) =>
             /\ FreedBy(wlog) = {}
             /\ mem[StartAddr].count >= shadow[StartAddr].count - 1
             /\ mem[StartAddr].count > 0
        /\ \A a \in FreedBy(wlog) :
             LET segs == Segments(shadow)
             IN /\ Len(segs) >= 2
                /\ a = segs[Len(segs)]
                /\ a = shadow[segs[Len(segs) - 1]].next
                /\ mem[segs[Len(segs) - 1]].next = NullAddr
        /\ TotalAccounts(shadow) >= 2
        /\ TotalAccounts(mem) >= 2

\* An alloc_tx found the first segment alone and full, and removed one
\* account.
C18_Witness ==
    /\ last.kind = "alloc"
    /\ Len(Segments(shadow)) = 1
    /\ shadow[StartAddr].count = nbaccounts
    /\ mem[StartAddr].count = nbaccounts - 1

\* What short_tx(send_id, recv_id) is to add to the balance of the account
\* of index id of the list of m.
Transfer(m, send_id, recv_id, id) ==
    LET total == TotalAccounts(m)
        moves == /\ send_id < total /\ recv_id < total
                 /\ send_id # recv_id
                 /\ BalanceAt(m, Segments(m), send_id) > 0
    IN IF moves /\ id = send_id THEN -1
       ELSE IF moves /\ id = recv_id THEN 1
       ELSE 0

C19_Rejected ==
    \E t \in Bankers :
        /\ tkind[t] = "short" /\ tran[t] /\ tret[t] = "false"
        /\ last.kind = "short" /\ last.s >= TotalAccounts(shadow)

RECURSIVE Decrements(_)
Decrements(S) ==
    IF S = {} THEN 0
    ELSE LET t == CHOOSE u \in S : TRUE
         IN chk_i[t] + (IF chk_pc[t] = "dec_x" /\ tran[t] THEN 1 ELSE 0)
            + Decrements(S \ {t})

\* Worker 0 has written the counter of check.
CounterSet ==
    /\ chk_pc[1] \notin {"off", "sync1", "init_w"}
    /\ chk_pc[1] = "init_r" => tran[1]

\* C20: on the reference STM no worker reports a violation in check: every
\* decrement transaction reads a value that is at least 1 and at most the
\* value its worker read in the read-only transaction before it, and writes
\* that value minus one; the counter is what worker 0 wrote minus the
\* decrements made so far, so never below zero; and worker 0 reads 0 once
\* all workers have made their check_nbtxperwrk decrements.
C20_CheckPasses ==
    /\ \A t \in Bankers :
         /\ chk_pc[t] \notin {"fail0a", "fail0b", "fail", "error"}
         /\ (tkind[t] = "chk_dec" /\ tran[t] /\ tactive[t] = "rw") =>
               /\ tret[t] = "true"
               /\ last.kind = "chk_dec"
               /\ last.readback <= chk_last[t]
               /\ last.readback >= 1
               /\ last.wrote = last.readback - 1
         /\ (tkind[t] = "chk_final" /\ tran[t]) =>
               tret[t] = "true" /\ Decrements(Bankers) = init_counter
    /\ CounterSet =>
         /\ mem[StartAddr].count = init_counter - Decrements(Bankers)
         /\ mem[StartAddr].count \in 0..init_counter

\* A worker's decrement transaction read less than its read-only transaction
\* had: another worker decremented in between.
C20_Witness ==
    \E t \in Bankers :
        /\ tkind[t] = "chk_dec" /\ tran[t] /\ tactive[t] = "rw"
        /\ last.readback < chk_last[t]

\* Every worker has returned from check without an error.
C20_AllReturned == \A t \in Bankers : chk_pc[t] = "done" /\ sync_pc[t] = "none"

\* C21: in the init phase exactly one worker executes the transaction that
\* writes the account count and the initial balances into the first segment;
\* the other workers write nothing to the shared memory during init: at most
\* one worker has run the body of init's read-write transaction.
C21_OneInitWriter ==
    Cardinality({t \in Bankers : tkind[t] = "init_w" /\ tmode[t] = "rw" /\ tran[t]}) <= 1

\* C22: an exception raised inside a worker's check becomes the error string
\* "Internal worker exception(s)" given to worker_notify, the check phase
\* then ends with status Fail and master_wait returns an error for it, the
\* other workers synchronizing on the barrier.
C22_RaisedPhaseFails ==
    (\E w \in Bankers : chk_pc[w] = "raised")
        ~> (status \in {"Fail", "Quit"} /\ result = [kind |-> "error", val |-> InternalError])

\* C23: the first artifact is evaluated with no phase timeout, and every
\* later artifact with timeouts that are slow_factor times the reference's
\* time for the phase (its init time, its median run time, its check time),
\* stepped over the sentinel: no timeout while the first artifact is measured,
\* and once it has passed, the three timeouts are those products of the times
\* its phases took (stated for the runs in which every phase's clock was
\* started before it was stopped).
C23_TimeoutFromPhaseTime ==
    /\ (artifact = 2 /\ mpc = "wait") => maxtick = invalid_tick
    /\ (artifact = 2 /\ maxticks.init # invalid_tick /\ ~stopRaced)
         => maxticks = [init |-> SetMaxtick(elapsed[1]),
                        perf |-> SetMaxtick(NthElement(SubSeq(elapsed, 2, NbRepeats + 1),
                                                       posmedian)),
                        chck |-> SetMaxtick(elapsed[NbRepeats + 2])]

\* C24: when every repeat ends Done, the run time measure() returns is the
\* element of 0-based rank NbRepeats / 2, in ascending order, of the elapsed
\* times of the repeats, each the time of one repeat from its master_notify
\* to its last worker_notify (stated for the runs in which every phase's
\* clock was started before it was stopped).
C24_MedianOfRepeats ==
    (mpc = "return" /\ error = null /\ ~stopRaced)
        => MeasureResult(times).perf = NthElement(SubSeq(elapsed, 2, NbRepeats + 1), posmedian)

\* The process has ended after master_wait ran out of time in some phase.
PhaseTimedOut ==
    /\ mpc = "done"
    /\ exitCode # SigAbort
    /\ result.kind # "unreachable"
    /\ \A w \in Workers : threads[w] = "detached"

\* The process has ended after measure() returned an error string.
ViolationReported == mpc = "done" /\ exitCode # SigAbort /\ error # null

\* The process has ended after every artifact went through all its phases
\* without error and was destroyed and unloaded.
AllPassed ==
    /\ mpc = "done"
    /\ exitCode # SigAbort
    /\ argc >= 3
    /\ artifact = argc - 1
    /\ error = null
    /\ Len(times) = NbRepeats + 2
    /\ regionDestroyed
    /\ libUnloaded

\* The process has ended on the usage message.
UsageError == mpc = "done" /\ argc < 3

\* C25 as amended: the exit code of a process that returns from main() or
\* quick-exits is 0 when (and only when) every artifact passed all phases, 1
\* after a violation reported by measure() or a usage error, and 2 after a
\* phase timeout; 2 is only given with every worker thread detached, that is
\* on an exception thrown from measure() while the workers may be running.
C25_ExitCodes ==
    /\ AllPassed => exitCode = 0
    /\ exitCode = 0 => AllPassed
    /\ ViolationReported => exitCode = 1
    /\ UsageError => exitCode = 1
    /\ PhaseTimedOut => exitCode = 2
    /\ exitCode = 2 => \A w \in Workers : threads[w] = "detached"

\* The second artifact ran out of time and the process quick-exited with 2.
C25_Witness == PhaseTimedOut /\ artifact = 3 /\ exitCode = 2

\* C25 as stated: the exit code is 0 when every artifact passes all phases, 1
\* after a correctness violation, a phase timeout or a usage error, and 2 only
\* on an exception raised while the workers may still be running.
C25_TimeoutExitsOne ==
    /\ AllPassed => exitCode = 0
    /\ ViolationReported => exitCode = 1
    /\ UsageError => exitCode = 1
    /\ PhaseTimedOut => exitCode = 1
    /\ exitCode = 2 => \A w \in Workers : threads[w] = "detached"

\* C26: the artifact is never unloaded (dlclose in ~TransactionalLibrary)
\* while a thread may still be executing inside it: once a worker thread or
\* the runner thread of a bounded_run has been detached, the unloader of the
\* artifact does not run.
C26_NoUnloadWhileInside ==
    libUnloaded => /\ \A w \in Workers : threads[w] # "detached"
                   /\ runner # "detached"

\* The changes of Sync::status, as <<from, to>>.
StatusSteps ==
    {<<"Done", "Wait">>, <<"Fail", "Wait">>, <<"Wait", "Run">>, <<"Run", "Abort">>,
     <<"Run", "Done">>, <<"Abort", "Fail">>, <<"Done", "Quit">>, <<"Fail", "Quit">>}

\* C27: the status of the synchronizer only changes from Done or Fail to Wait
\* (master_notify), from Wait to Run (the worker that completes the gate), from
\* Run to Abort (a worker with an error), from Run to Done and from Abort to
\* Fail (the last worker to notify), from Done or Fail to Quit (master_join).
C27_StatusSteps ==
    [][status' # status =>
         /\ <<status, status'>> \in StatusSteps
         /\ status' = "Wait" => mpc = "notify"
         /\ status' = "Quit" => mpc = "join"
         /\ status' = "Run" => \E w \in Workers : wpc[w] = "ww_run" /\ wpc'[w] # "ww_run"
         /\ status' = "Abort" => \E w \in Workers : wpc[w] = "wn_abort" /\ wpc'[w] # "wn_abort"
         /\ status' \in {"Done", "Fail"} =>
              /\ notified = Workers
              /\ \E w \in Workers : wpc[w] = "wn_status" /\ wpc'[w] # "wn_status"]_vars

\* The status went through Wait, Run, Abort and Fail to Quit.
C27_Witness == status = "Quit" /\ error # null /\ opened = 1

\* ---- C28
\* C28, first part: no thread returns from its k-th call of sync() before all
\* threads have entered (fetch_add) their k-th call.
C28_NoEarlyReturn ==
    \A t, u \in Bankers : bsync[t].returned <= bsync[u].entered

\* C28, second part as the code has it: no thread enters its (k+1)-th
\* rendezvous before every thread has left (fetch_sub) the k-th one and the
\* mode is back to enter for it.
C28_NoEarlyEntry ==
    \A t, u \in Bankers : bsync[t].entered <= bsync[u].left + 1

\* C28, last part: after each round, when no thread is inside sync(), step is
\* 0 and mode is enter.
C28_RoundReset ==
    (\A t \in Bankers : sync_pc[t] = "none") =>
        /\ barrier = [step |-> 0, mode |-> "enter"]
        /\ \A t, u \in Bankers : bsync[t].returned = bsync[u].returned

\* C28, amended: for a Barrier of cardinal N used repeatedly by N threads, no
\* thread returns from its k-th call of sync() before all N threads have
\* entered their k-th call, no thread enters its (k+1)-th rendezvous before
\* every thread has decremented step in the k-th, every call returns once all
\* N threads have called sync(), and after each round step is 0 and mode is
\* enter.
C28_BarrierRounds ==
    /\ [](C28_NoEarlyReturn /\ C28_NoEarlyEntry /\ C28_RoundReset)
    /\ [](barrier.step \in 0..nbworkers)
    /\ \A k \in 1..MaxRounds :
           (\A t \in Bankers : bsync[t].entered >= k)
               ~> (\A t \in Bankers : bsync[t].returned >= k)

\* A thread has entered its second rendezvous while another still spins in its
\* first call, waiting to read mode = enter.
C28_Witness ==
    \E t, u \in Bankers :
        /\ bsync[t].entered = 2
        /\ bsync[u].returned = 0
        /\ sync_pc[u] = "wait_enter"

\* C28 as stated: no thread enters its (k+1)-th rendezvous while another is
\* still leaving, that is has not returned from, the k-th.
C28_NoEntryWhileLeaving ==
    /\ C28_NoEarlyReturn
    /\ \A t, u \in Bankers : bsync[t].entered <= bsync[u].returned + 1
    /\ C28_RoundReset

\* ---- C29
\* The positions of check at which a worker has finished its decrement loop,
\* or has abandoned it on a failed decrement or on an exception.
LoopOver == {"sync3", "final", "final_x", "done", "fail", "error", "raised"}

\* C29: in the check phase no worker calls a transaction of its loop (the read
\* of the counter or its decrement) before the transaction of worker 0 that
\* writes the initial counter value has committed, and worker 0 calls its
\* final read of the counter only after every worker has finished or
\* abandoned its decrement loop.
C29_CheckOrder ==
    /\ \A w \in Bankers :
           tkind[w] \in {"chk_read", "chk_dec"} =>
               \E z \in Bankers :
                   /\ Uid(z) = 0
                   /\ commits[z] >= 1
                   /\ chk_pc[z] \notin {"sync1", "init_w"}
    /\ \A z \in Bankers :
           tkind[z] = "chk_final" => \A w \in Bankers : chk_pc[w] \in LoopOver

\* Worker 0 has made its final read, after every worker did all its
\* decrements.
C29_Witness ==
    \E z \in Bankers :
        /\ Uid(z) = 0
        /\ tkind[z] = "chk_final"
        /\ tran[z]
        /\ \A w \in Bankers : chk_i[w] = check_nbtxperwrk /\ commits[w] >= 2 * check_nbtxperwrk
        /\ \E w \in Bankers : w # z /\ sync_pc[w] = "wait_enter"

\* ---- C30
\* What alloc_tx(trigger) does to the list of the context cx, for one outcome
\* o of its body: on return the number of active accounts goes down by one
\* when it was above trigger and above 2, and up by one otherwise; a segment
\* is allocated only when the last one holds nbaccounts accounts, with a
\* count of 1, one balance init_balance and the old last segment pointing to
\* it; a segment is freed only when it is the last one and holds one account,
\* its parity going to the one before it. A tm_alloc that answers nomem ends
\* the body with TransactionAlloc before any write: the list is as it was.
AllocEffect(cx, trigger, o) ==
    LET segs == Segments(cx.m)
        tail == segs[Len(segs)]
        total == TotalAccounts(cx.m)
        after == TotalAccounts(o.cx.m)
    IN /\ o.how \in {"return", "nomem"}
       /\ o.how = "return" =>
            after - total = IF total > trigger /\ total > 2 THEN -1 ELSE 1
       /\ o.how = "nomem" =>
            /\ o.cx.m = cx.m
            /\ o.cx.log = <<>>
            /\ cx.m[tail].count = nbaccounts
            /\ ~(total > trigger /\ total > 2)
       /\ \A a \in AllocatedBy(o.cx.log) :
            /\ cx.m[tail].count = nbaccounts
            /\ a \notin cx.live \cup {StartAddr}
            /\ o.cx.m[a].count = 1
            /\ o.cx.m[a].accounts[0] = init_balance
            /\ o.cx.m[a].next = NullAddr
            /\ o.cx.m[tail].next = a
            /\ Segments(o.cx.m) = Append(segs, a)
       /\ \A a \in FreedBy(o.cx.log) :
            /\ a = tail
            /\ cx.m[a].count = 1
            /\ Len(segs) >= 2
            /\ a \notin o.cx.live
            /\ Segments(o.cx.m) = SubSeq(segs, 1, Len(segs) - 1)
            /\ o.cx.m[segs[Len(segs) - 1]].parity =
                   cx.m[segs[Len(segs) - 1]].parity + cx.m[a].parity
                   + cx.m[a].accounts[0] - init_balance
       /\ Cardinality(AllocatedBy(o.cx.log)) + Cardinality(FreedBy(o.cx.log)) <= 1

CheckOver == \A t \in Bankers : chk_pc[t] \in {"done", "error"} /\ sync_pc[t] = "none"

\* C31, amended: if, in the check phase, the library lets two read-write
\* transactions read the same counter value and both commit, the check phase
\* does not pass: the counter is never zero from then on, and once every
\* worker has returned from check one of them has returned a violation, from
\* its decrement loop or, for worker 0, from its final read.
C31_LostUpdateCaught ==
    lostupd.twice =>
        /\ Load(mem, StartAddr, "count", 0) # 0
        /\ CheckOver => \E t \in Bankers : chk_pc[t] = "error"
        /\ \A z \in Bankers :
               (Uid(z) = 0 /\ chk_pc[z] = "final_x" /\ tran[z]) => tret[z] = "false"

\* Two decrements read the same value and committed, every loop came to its
\* end, and worker 0's final read found the counter above zero.
C31_Witness ==
    /\ lostupd.twice
    /\ CheckOver
    /\ \A t \in Bankers : chk_i[t] = check_nbtxperwrk
    /\ \E z \in Bankers : Uid(z) = 0 /\ chk_pc[z] = "error"

\* C31 as stated: after a lost update it is worker 0's final read that makes
\* check return a violation (worker 0 returns an error with its loop done).
C31_FinalReadCatches ==
    (lostupd.twice /\ CheckOver) =>
        /\ Load(mem, StartAddr, "count", 0) # 0
        /\ \E z \in Bankers :
               Uid(z) = 0 /\ chk_pc[z] = "error" /\ chk_i[z] = check_nbtxperwrk

\* ---- C32
\* C32: a transaction is committed only when its body completes normally:
\* when the body of an attempt exits with TransactionAlloc (tm_alloc answered
\* nomem), tm_end is not called for that attempt and the attempt is not
\* committed.
C32_NoCommitOnError ==
    \A t \in Threads :
        tpc[t] \in {"failed", "terminated"} =>
            /\ tends[t] = 0
            /\ tcommitAtt[t] # attempts[t]

\* ---- C33
\* C33: bounded_run has exactly two outcomes (it is not ended by the process
\* being terminated): it returns after func completed on the runner and the
\* runner was joined, so the caller joins only a runner that has issued its
\* notification; or it detaches the runner and raises BoundedOverrun once the
\* budget has elapsed, so the caller is never blocked longer than the budget;
\* the notification is not issued before the caller waits.
C33_BoundedRun ==
    /\ br.caller # "terminated"
    /\ br.caller \in {"joining", "returned"} => br.runner \in {"unlock", "exited"}
    /\ br.caller = "overrun" => br.clock >= MaxSide
    /\ br.runner \in {"unlock", "exited"} => br.caller # "spawned"
    /\ ~(br.caller = "joining" /\ br.clock > MaxSide /\ br.runner \in {"func", "lock"})

\* ---- C34
\* The nodes of the allocation list from n on, up to region->allocs.
RECURSIVE Chain(_, _, _)
Chain(ls, n, fuel) ==
    IF n = Base \/ fuel = 0 THEN {}
    ELSE {n} \cup Chain(ls, ls[n].next, fuel - 1)

\* The same, backwards.
RECURSIVE ChainBack(_, _, _)
ChainBack(ls, n, fuel) ==
    IF n = Base \/ fuel = 0 THEN {}
    ELSE {n} \cup ChainBack(ls, ls[n].prev, fuel - 1)

\* C34: while the struct region lives, the allocation list of the reference
\* library is a circular doubly-linked list whose nodes are exactly the
\* segments tm_alloc answered and tm_free was not given (those tm_destroy has
\* not yet freed, once it runs): every node n, region->allocs included, has
\* n.next.prev = n and n.prev.next = n, the list is the same in both
\* directions, and the first segment is never on it.
C34_AllocList ==
    region.st = "live" =>
        LET ls == region.links
            nodes == Chain(ls, ls[Base].next, MaxBlocks + 2)
        IN /\ nodes = region.heap \ {region.start}
           /\ region.pc = "use" => nodes = region.out
           /\ nodes = ChainBack(ls, ls[Base].prev, MaxBlocks + 2)
           /\ \A n \in nodes \cup {Base} :
                ls[ls[n].next].prev = n /\ ls[ls[n].prev].next = n
           /\ region.start \notin nodes
           /\ ~region.dfree

\* Two segments are on the list, the older one allocated after a tm_free of
\* its block or of another.
C34_Witness ==
    /\ region.pc = "use"
    /\ Cardinality(region.out) = 2
    /\ region.calls = MaxAllocs
    /\ region.target # NullPtr
    /\ region.links[Base].prev = region.target.blk
    /\ region.links[Base].next # region.target.blk

\* ---- C35
\* C35: on success tm_alloc answers an address that is a multiple of
\* max(region alignment, pointer size), whose size bytes are all zero, inside
\* the block, and at least sizeof(struct link) bytes after the start of the
\* block: the link at the start of the block is whole.
C35_AllocAddress ==
    region.target # NullPtr =>
        LET a == region.taddr + region.target.off
            m == IF region.align > PtrSize THEN region.align ELSE PtrSize
        IN /\ a % m = 0
           /\ region.target.off >= LinkSize
           /\ region.target.off + region.asked <= Len(region.tbytes)
           /\ \A i \in 1..region.asked : region.tbytes[region.target.off + i] = "zero"
           /\ \A i \in 1..LinkSize : region.tbytes[i] = "link"

\* tm_alloc answered a segment on a region whose alignment is above the size
\* of the link.
C35_Witness ==
    /\ region.target # NullPtr
    /\ region.align > LinkSize
    /\ region.target.off = region.align
    /\ region.asked >= region.align

\* ---- C39
\* C39: tm_destroy releases every segment still on the allocation list, the
\* first segment and the struct exactly once each, and makes no access to the
\* struct (its lock included) after the struct has been released.
C39_DestroyClean ==
    /\ ~region.dfree
    /\ region.pc \in {"done", "crashed"} => region.heap = {} /\ region.st = "freed"
    /\ region.pc # "crashed"
    /\ ~region.uaf

\* ---- C36
\* C36: in every phase the clock Sync::runtime is started by the master
\* (Chrono::start in master_notify) before the last worker of the phase stops
\* it (Chrono::stop in worker_notify), and the master's start and a worker's
\* stop are never both about to run.
C36_ClockOrder ==
    /\ ~stopRaced
    /\ ~(mpc = "start" /\ \E w \in Workers : wpc[w] = "wn_stop")

\* ------------------------------------- one short_tx call on an arbitrary STM
\* One call of short_tx(send_id, recv_id) through transactional(), on a
\* library that may abort any read or write and may refuse the commit. The
\* closure is [&]: it holds references to the parameters send_id and recv_id
\* of short_tx, which live as long as the call and are shared by all attempts.
shortRest == <<syncVars, masterVars, argc, artifact, maxticks, runner, br, region,
               workerVars, histVars, now, rwlock, tpc, tmode, taborted, tactive, tops,
               attempts, txdone, commits, allocs, clientHist, live, tkind, tran, tret,
               lcount, cntr, rpc, redraws, shadow, wlog, last, checkVars>>

\* The answers of the library to an operation of the attempt: an abort makes
\* Transaction::read or write throw TransactionRetry; aborts are capped.
ShortAnswers == IF stx.aborts < MaxAttempts THEN {"success", "abort"} ELSE {"success"}

\* transactional(), lines 611-620, after TransactionRetry: `continue`, the
\* closure's captured variables are left as the attempt left them.
ShortRetry == [stx EXCEPT !.pc = "begin", !.aborts = @ + 1]

\* run() calls short_tx with two drawn indices.
ShortCall ==
    /\ stx.pc = "idle"
    /\ \E s \in 0..TotalAccounts(mem), r \in 0..TotalAccounts(mem) :
         stx' = [stx EXCEPT !.pc = "begin", !.send_id = s, !.recv_id = r,
                            !.arg_s = s, !.arg_r = r]
    /\ UNCHANGED <<mem, shortRest>>

\* transactional(), line 614, and short_tx, lines 234-237: a new Transaction;
\* the closure starts with null pointers at the first segment.
ShortBegin ==
    /\ stx.pc = "begin"
    /\ stx' = [stx EXCEPT !.pc = "count", !.send_ptr = NoPtr, !.recv_ptr = NoPtr,
                          !.start = StartAddr, !.ret = "none", !.attempts = @ + 1]
    /\ UNCHANGED <<mem, shortRest>>

\* short_tx, lines 239-258: segment.count is read, then the two indices are
\* tested against it and reduced by it.
ShortCount ==
    /\ stx.pc = "count"
    /\ \E ans \in ShortAnswers :
         IF ans = "abort" THEN stx' = ShortRetry
         ELSE LET segment_count == Load(mem, stx.start, "count", 0)
                  sfound == stx.send_ptr = NoPtr /\ stx.send_id < segment_count
                  sp == IF sfound THEN [a |-> stx.start, i |-> stx.send_id]
                        ELSE stx.send_ptr
                  sid == IF stx.send_ptr = NoPtr /\ ~sfound
                         THEN stx.send_id - segment_count ELSE stx.send_id
                  brk1 == sfound /\ stx.recv_ptr # NoPtr
                  rfound == ~brk1 /\ stx.recv_ptr = NoPtr /\ stx.recv_id < segment_count
                  rp == IF rfound THEN [a |-> stx.start, i |-> stx.recv_id]
                        ELSE stx.recv_ptr
                  rid == IF ~brk1 /\ stx.recv_ptr = NoPtr /\ ~rfound
                         THEN stx.recv_id - segment_count ELSE stx.recv_id
                  brk2 == rfound /\ sp # NoPtr
              IN stx' = [stx EXCEPT !.send_ptr = sp, !.recv_ptr = rp, !.send_id = sid,
                                    !.recv_id = rid,
                                    !.pc = IF brk1 \/ brk2 THEN "transfer" ELSE "next"]
    /\ UNCHANGED <<mem, shortRest>>

\* short_tx, lines 259-261: segment.next is read; the body returns false at
\* the end of the list.
ShortNext ==
    /\ stx.pc = "next"
    /\ \E ans \in ShortAnswers :
         IF ans = "abort" THEN stx' = ShortRetry
         ELSE LET next == Load(mem, stx.start, "next", 0)
              IN stx' = [stx EXCEPT !.start = next,
                                    !.ret = IF next = NullAddr THEN "false" ELSE @,
                                    !.pc = IF next = NullAddr THEN "end" ELSE "count"]
    /\ UNCHANGED <<mem, shortRest>>

\* short_tx, lines 263-271: the transfer between the two accounts found; the
\* body returns true.
ShortTransfer ==
    /\ stx.pc = "transfer"
    /\ \E ans \in ShortAnswers :
         IF ans = "abort" THEN stx' = ShortRetry
         ELSE stx' = [stx EXCEPT !.ret = "true", !.pc = "end"]
    /\ UNCHANGED <<mem, shortRest>>

\* ~Transaction, lines 292-297: tm_end; a refused commit throws
\* TransactionRetry. A commit makes the transfer.
ShortEnd ==
    /\ stx.pc = "end"
    /\ \E ans \in ShortAnswers :
         IF ans = "abort" THEN stx' = ShortRetry /\ mem' = mem
         ELSE /\ stx' = [stx EXCEPT !.pc = "done"]
              /\ mem' = IF stx.ret = "true"
                        THEN LET send_val == Load(mem, stx.send_ptr.a, "accounts",
                                                  stx.send_ptr.i)
                                 m1 == Store(mem, stx.send_ptr.a, "accounts", stx.send_ptr.i,
                                             send_val - 1)
                                 recv_val == Load(m1, stx.recv_ptr.a, "accounts",
                                                  stx.recv_ptr.i)
                             IN IF EnoughFund(send_val)
                                THEN Store(m1, stx.recv_ptr.a, "accounts", stx.recv_ptr.i,
                                           Credited(recv_val))
                                ELSE mem
                        ELSE mem
    /\ UNCHANGED shortRest

InitShort == InitList

NextShort ==
    \/ ShortCall
    \/ ShortBegin
    \/ ShortCount
    \/ ShortNext
    \/ ShortTransfer
    \/ ShortEnd

SpecShort == InitShort /\ [][NextShort]_vars

\* ---- C37
\* The index, counted along the list, of the account a pointer designates.
RECURSIVE IndexOf(_, _, _)
IndexOf(m, segs, ptr) ==
    IF segs = <<>> THEN -1
    ELSE IF Head(segs) = ptr.a THEN ptr.i
    ELSE m[Head(segs)].count + IndexOf(m, Tail(segs), ptr)

\* C37: every attempt of a retried short_tx resolves the two account indices
\* its caller gave: an attempt starts with the indices unaltered by the
\* attempts aborted before it, and the accounts an attempt found are those of
\* the indices given.
C37_SameIndices ==
    /\ stx.pc = "begin" => stx.send_id = stx.arg_s /\ stx.recv_id = stx.arg_r
    /\ stx.pc \in {"transfer", "end", "done"} /\ stx.ret # "false" =>
         /\ IndexOf(mem, Segments(mem), stx.send_ptr) = stx.arg_s
         /\ IndexOf(mem, Segments(mem), stx.recv_ptr) = stx.arg_r

\* ------------------------------------- the workload's three member functions
\* The workers in WorkloadBank::init and run, or in WorkloadBank::check, on
\* the reference STM: measure() runs them in separate phases.
InitWork == InitBank \/ InitCheck

NextWork ==
    \/ NextBank
    \/ NextCheck

SpecWork == InitWork /\ [][NextWork]_vars

\* ---- C38
\* C38: the workload issues no tm_write, tm_alloc or tm_free inside a
\* read-only transaction: the body of a transaction begun read-only (long_tx,
\* the probe of init, the read-only transactions of check) leaves the shared
\* memory, the set of allocated segments and the log of writes as they were.
C38_ReadOnlyReads ==
    [][\A t \in Threads :
         (tmode[t] = "ro" /\ ~tran[t] /\ tran'[t]) =>
             /\ mem' = mem
             /\ live' = live
             /\ allocs' = allocs
             /\ wlog' = wlog
             /\ tkind[t] \in {"long", "init_r", "chk_init_r", "chk_read", "chk_final"}]_vars

\* A read-only body of run and one of check have returned.
C38_Witness ==
    \E t \in Threads :
        /\ tmode[t] = "ro"
        /\ tran[t]
        /\ tkind[t] \in {"long", "chk_final"}
        /\ tret[t] = "true"

\* ---- C40
\* C40: in the check phase every worker that leaves check has called
\* Barrier::sync three times, whichever way check ended, so no worker is left
\* waiting at the barrier and every worker eventually calls worker_notify.
C40_AllSyncAllNotify ==
    /\ [](\A t \in Bankers :
            (chk_pc[t] \in {"done", "error"} /\ sync_pc[t] = "none")
                => bsync[t].returned = 3)
    /\ <>(\A w \in Workers : w \in notified)

====
